---- MODULE Spec2Model ----
(***************************************************************************)
(* A model of the constrained linear-algebra core of pyNastran's           *)
(* dev_vectorized static solver (pyNastran/bdf/dev_vectorized/solver/      *)
(* solver.py, class Solver): the DOF indexer, the SPC resolver, the DOF    *)
(* set algebra, stiffness and load assembly, the partitioned solve with    *)
(* its singularity recovery, and the scatter of the solution.              *)
(*                                                                         *)
(* Numbers.  Stiffnesses and loads are integers; displacements are exact   *)
(* rationals <<numerator, denominator>> in lowest terms with a positive    *)
(* denominator, so that F / k is a value of the model.  numpy's solve is   *)
(* modelled in exact arithmetic: it raises exactly when the matrix is      *)
(* singular and otherwise returns the unique solution.                     *)
(*                                                                         *)
(* Indices.  DOF indices are 0-based as in the code; Python lists are      *)
(* sequences (1-based), so list position p of the code is p + 1 here.      *)
(***************************************************************************)
EXTENDS Integers, Sequences, FiniteSets, TLC

VARIABLES
    model,             \* the BDF model and case the solver reads (inputs)
    pc,                \* position of the run
    err,               \* "" or the name of the exception that ended the run
    nidComponentToID,  \* self.nidComponentToID
    ndofs,             \* the DOF count returned by build_nid_component_to_id
    mp_index,          \* self.mp_index
    iUsg, Usg,         \* self.iUsg, self.Usg
    iUsb, Usb,         \* self.iUsb, self.Usb
    iUs, Us,           \* self.iUs, self.Us
    Kgg, Fg,           \* self.Kgg and the load vector of the case
    Mgg,               \* self.Mgg
    iUmp, jUmp, Ump,   \* self.iUmp, self.jUmp, self.Ump
    iUm, jUm, Um,      \* self.iUm, self.jUm, self.Um
    base,              \* the other base sets of self (iUmr, iUc, iUlm, ...) by name
    derived,           \* the other derived sets of self (iUl, iUt, iUa, ...) by name
    Kaa, Fa, dofs2,    \* the arguments K, F, dofs of _solve
    failed,            \* the [nid, dof] rows _solve reports as singular
    nsolve,            \* number of calls of numpy.linalg.solve in this _solve
    Ua,                \* the vector _solve returned
    U,                 \* the full solution vector of run_sol_101
    nwrites,           \* how many times the scatter wrote each index of U
    grid_point_weight, \* self.grid_point_weight, the result record of make_gpwg
    case_result_flags  \* self.case_result_flags

vars == <<model, pc, err, nidComponentToID, ndofs, mp_index, iUsg, Usg, iUsb,
          Usb, iUs, Us, Kgg, Fg, Mgg, iUmp, jUmp, Ump, iUm, jUm, Um, base,
          derived, Kaa, Fa, dofs2, failed, nsolve, Ua, U, nwrites,
          grid_point_weight, case_result_flags>>

indexVars == <<nidComponentToID, ndofs, mp_index>>
sgVars    == <<iUsg, Usg>>
sbVars    == <<iUsb, Usb>>
sVars     == <<iUs, Us>>
ggVars    == <<Kgg, Fg>>
argVars   == <<Kaa, Fa, dofs2>>
solveVars == <<failed, nsolve, Ua>>
outVars   == <<U, nwrites>>
massVars  == <<Mgg>>
mpVars    == <<iUmp, jUmp, Ump>>
mVars     == <<iUm, jUm, Um>>
setVars   == <<base, derived>>
gpwgVars  == <<grid_point_weight>>
caseVars  == <<case_result_flags>>

-----------------------------------------------------------------------------
(* Bounds of the model. *)

\* largest grid / scalar point identifier
MaxId == 3
\* most grid points of a model handed to the indexer
MaxGrid == 2
\* most scalar points of a model handed to the indexer
MaxSpoint == 2

-----------------------------------------------------------------------------
(* Generic helpers: Python lists, dicts and sorted(). *)

Range(s) == {s[k] : k \in 1..Len(s)}

\* the sequences over S of length lo..hi without a repeated element
InjSeqs(S, lo, hi) ==
    UNION {{s \in [1..n -> S] : \A a, b \in 1..n : a # b => s[a] # s[b]} : n \in lo..hi}

\* d[key] = val of a Python dict: a new key is added, an old one overwritten
DictSet(d, key, val) ==
    [k \in (DOMAIN d) \cup {key} |-> IF k = key THEN val ELSE d[k]]

SetMin(S) == CHOOSE a \in S : \A b \in S : a <= b

\* sorted(S) for a collection of distinct integers
RECURSIVE Sorted(_)
Sorted(S) == IF S = {} THEN <<>> ELSE <<SetMin(S)>> \o Sorted(S \ {SetMin(S)})

\* the float 0.0 (values are rationals <<numerator, denominator>>)
Zero == <<0, 1>>

-----------------------------------------------------------------------------
(* The packed "permanently constrained components" field of a GRID.       *)

\* the component lists a PS field is written from; <<>> is a blank field
PsCompLists == {<<>>, <<1>>, <<6>>, <<1, 2>>, <<3, 1>>, <<2, 4, 6>>, <<1, 2, 3, 4, 5, 6>>}

\* the integer the model stores for a PS field: its digits, -1 when blank
RECURSIVE PackPS(_)
PackPS(comps) ==
    IF comps = <<>> THEN -1
    ELSE IF Len(comps) = 1 THEN comps[1]
    ELSE 10 * PackPS(SubSeq(comps, 1, Len(comps) - 1)) + comps[Len(comps)]

PsValues == {PackPS(c) : c \in PsCompLists}

-----------------------------------------------------------------------------
(* build_nid_component_to_id *)

RECURSIVE PsLoop(_, _)
\* variant of PsLoop that stops before the leading digit of ps
PsLoopDropsLast(ps, i) ==
    IF ps > 9
    THEN <<i + (ps % 10) - 1>> \o PsLoop(ps \div 10, i)
    ELSE <<>>

\* the while loop over the digits of ps: the indices appended to iUsg
PsLoop(ps, i) ==
    IF ps > 0
    THEN <<i + (ps % 10) - 1>> \o PsLoop(ps \div 10, i)
    ELSE <<>>

\* variant of GridKeys that gives components 5 and 6 the same index
GridKeysFiveSlots(map, nid, i) ==
    LET m1 == DictSet(map, <<nid, 1>>, i)
        m2 == DictSet(m1, <<nid, 2>>, i + 1)
        m3 == DictSet(m2, <<nid, 3>>, i + 2)
        m4 == DictSet(m3, <<nid, 4>>, i + 3)
        m5 == DictSet(m4, <<nid, 5>>, i + 4)
    IN  DictSet(m5, <<nid, 6>>, i + 4)

\* the six assignments nidComponentToID[(nid, c)] = i + c - 1
GridKeys(map, nid, i) ==
    LET m1 == DictSet(map, <<nid, 1>>, i)
        m2 == DictSet(m1, <<nid, 2>>, i + 1)
        m3 == DictSet(m2, <<nid, 3>>, i + 2)
        m4 == DictSet(m3, <<nid, 4>>, i + 3)
        m5 == DictSet(m4, <<nid, 5>>, i + 4)
    IN  DictSet(m5, <<nid, 6>>, i + 5)

\* the loop over the GRIDs; st = [i, map, iUsg, Usg]
RECURSIVE GridLoop(_, _, _)
GridLoop(m, ni, st) ==
    IF ni > Len(m.node_id) THEN st
    ELSE LET nid == m.node_id[ni]
             ps  == m.ps[ni]
             sg  == IF ps > -1 THEN PsLoop(ps, st.i) ELSE <<>>
         IN  GridLoop(m, ni + 1,
                 [i    |-> st.i + 6,
                  map  |-> GridKeys(st.map, nid, st.i),
                  iUsg |-> st.iUsg \o sg,
                  Usg  |-> st.Usg \o [k \in 1..Len(sg) |-> Zero]])

\* variant of SpointOrder that keeps the order of insertion
SpointOrderAsInserted(spoint) == spoint

\* the order in which the SPOINT loop visits the scalar points
SpointOrder(spoint) == Sorted(Range(spoint))

\* the loop over the SPOINTs; st = [i, map]
RECURSIVE SpointLoop(_, _, _)
SpointLoop(ids, k, st) ==
    IF k > Len(ids) THEN st
    ELSE SpointLoop(ids, k + 1,
             [i |-> st.i + 1, map |-> DictSet(st.map, <<ids[k], 1>>, st.i)])

\* 'cd = set(model.grid.cd)' and then 'if cd == 0': a set and an integer,
\* which Python never finds equal, whatever the grid points refer to
CdIsZero(m) == FALSE

\* the whole function: the values it returns and the fields it leaves behind
build_nid_component_to_id(m, self_iUsg, self_Usg) ==
    LET g == GridLoop(m, 1, [i |-> 0, map |-> <<>>, iUsg |-> self_iUsg, Usg |-> self_Usg])
        s == IF Len(m.spoint) # 0
             THEN SpointLoop(SpointOrder(m.spoint), 1, [i |-> g.i, map |-> g.map])
             ELSE [i |-> g.i, map |-> g.map]
        unsupported == Len(m.node_id) # 0 /\ CdIsZero(m)
    IN  [raised   |-> IF unsupported THEN "NotImplementedError"
                      ELSE IF s.i > 0 THEN "" ELSE "AssertionError",
         map      |-> s.map,
         i        |-> s.i,
         iUsg     |-> IF unsupported THEN self_iUsg ELSE g.iUsg,
         Usg      |-> IF unsupported THEN self_Usg ELSE g.Usg,
         mp_index |-> Len(m.node_id) + Len(m.spoint)]

-----------------------------------------------------------------------------
(* The models handed to the indexer alone. *)

Ids == 1..MaxId

\* case_spc, case_mpc: the SPC and MPC parameters of the case (0: absent)
NoCase == [spcs |-> <<>>, mpcs |-> <<>>, elems |-> <<>>, loads |-> <<>>,
           case_spc |-> 0, case_mpc |-> 0, autospc |-> "absent"]

\* up to MaxGrid grid points with a PS field each, up to MaxSpoint scalar points
IndexModels ==
    UNION {
        {[node_id |-> g, ps |-> p, spoint |-> sp] @@ NoCase :
            p \in [1..Len(g) -> PsValues], sp \in InjSeqs(Ids \ Range(g), 0, MaxSpoint)} :
        g \in InjSeqs(Ids, 0, MaxGrid)}

\* identifiers are unique over grid and scalar points together
ValidIndexModel(m) ==
    /\ Len(m.ps) = Len(m.node_id)
    /\ Range(m.node_id) \cap Range(m.spoint) = {}

BaseNames ==
    {"iUmr", "jUmr", "Umr", "iUc", "Uc", "iUlm", "Ulm", "iUr", "Ur", "iUq", "Uq",
     "iUo", "Uo", "iUe", "Ue", "iUk", "Uk", "iUj", "Uj", "iUsa", "Usa"}

DerivedNames ==
    {"iUl", "Ul", "iUt", "Ut", "iUa", "Ua", "iUd", "Ud", "iUf", "Uf", "iUfe", "Ufe",
     "iUn", "Un", "iUne", "Une", "iUg", "Ug", "iUp", "Up", "iUks", "Uks",
     "iUjs", "Ujs", "iUfr", "Ufr", "iUv", "Uv"}

\* __init__ leaves every base set an empty list
EmptyBase == [x \in BaseNames |-> <<>>]

\* the derived sets before build_dof_sets has run
NoDerived == [x \in DerivedNames |-> <<>>]

\* the result record before make_gpwg has stored anything in it
NoWeight ==
    [made |-> FALSE, reference_point |-> 0, MO |-> <<>>, S |-> <<>>,
     mass |-> <<>>, cg |-> <<>>, IS |-> <<>>]

\* self.case_result_flags = {}
NoFlags == <<>>

InitSolver ==
    /\ err = ""
    /\ nidComponentToID = <<>>
    /\ ndofs = 0
    /\ mp_index = 0
    /\ iUsg = <<>> /\ Usg = <<>>
    /\ iUsb = <<>> /\ Usb = <<>>
    /\ iUs = <<>> /\ Us = <<>>
    /\ Kgg = <<>> /\ Fg = <<>>
    /\ Mgg = <<>>
    /\ iUmp = <<>> /\ jUmp = <<>> /\ Ump = <<>>
    /\ iUm = <<>> /\ jUm = <<>> /\ Um = <<>>
    /\ base = EmptyBase /\ derived = NoDerived
    /\ Kaa = <<>> /\ Fa = <<>> /\ dofs2 = <<>>
    /\ failed = <<>> /\ nsolve = 0 /\ Ua = <<>>
    /\ U = <<>> /\ nwrites = <<>>
    /\ grid_point_weight = NoWeight /\ case_result_flags = NoFlags

InitIndex ==
    /\ model \in {m \in IndexModels : ValidIndexModel(m)}
    /\ pc = "build_nid_component_to_id"
    /\ InitSolver

\* setup_sol_101, first call: (self.nidComponentToID, ndofs) = self.build_nid_component_to_id(model)
BuildIndex ==
    /\ pc = "build_nid_component_to_id"
    /\ LET r == build_nid_component_to_id(model, iUsg, Usg)
       IN  /\ iUsg' = r.iUsg
           /\ Usg' = r.Usg
           /\ IF r.raised = ""
              THEN /\ nidComponentToID' = r.map
                   /\ ndofs' = r.i
                   /\ mp_index' = r.mp_index
                   /\ pc' = "apply_SPCs"
                   /\ err' = ""
              ELSE /\ UNCHANGED indexVars
                   /\ pc' = "raised"
                   /\ err' = r.raised
    /\ UNCHANGED <<model, sbVars, sVars, ggVars, argVars, solveVars, outVars,
                   massVars, mpVars, mVars, setVars, gpwgVars, caseVars>>

NextIndex == BuildIndex

SpecIndex == InitIndex /\ [][NextIndex]_vars

-----------------------------------------------------------------------------
(* Exact arithmetic for numpy's float64 values and dense arrays.          *)

Abs(a) == IF a < 0 THEN -a ELSE a

RECURSIVE GCD(_, _)
GCD(a, b) == IF b = 0 THEN a ELSE GCD(b, a % b)

\* the rational n / d in lowest terms with a positive denominator
Rat(n, d) ==
    LET g == GCD(Abs(n), Abs(d))
        s == IF d < 0 THEN -1 ELSE 1
    IN  <<(s * n) \div g, (s * d) \div g>>

RatAdd(a, b) == Rat(a[1] * b[2] + b[1] * a[2], a[2] * b[2])
RatTimes(k, a) == Rat(k * a[1], a[2])

\* zeros(n)
Zeros(n) == [k \in 1..n |-> Zero]

\* M with row r and column c struck out
Minor(M, r, c) ==
    [a \in 1..(Len(M) - 1) |->
        [b \in 1..(Len(M) - 1) |->
            M[IF a < r THEN a ELSE a + 1][IF b < c THEN b ELSE b + 1]]]

\* M with column c replaced by the vector F
ReplaceCol(M, c, F) ==
    [a \in 1..Len(M) |-> [b \in 1..Len(M) |-> IF b = c THEN F[a] ELSE M[a][b]]]

\* the determinant, expanded along the first row (zero entries skipped)
RECURSIVE Det(_)
RECURSIVE DetRow(_, _)
DetRow(M, j) ==
    IF j > Len(M) THEN 0
    ELSE (IF M[1][j] = 0 THEN 0
          ELSE (IF j % 2 = 1 THEN 1 ELSE -1) * M[1][j] * Det(Minor(M, 1, j)))
         + DetRow(M, j + 1)
Det(M) ==
    IF Len(M) = 0 THEN 1
    ELSE IF \E a \in 1..Len(M) : \A b \in 1..Len(M) : M[a][b] = 0 THEN 0
    ELSE IF Len(M) = 1 THEN M[1][1]
    ELSE DetRow(M, 1)

\* numpy.linalg.solve(K, F): the outcomes it can have.  A singular K raises
\* LinAlgError, a regular one gives the solution (Cramer's rule); for an
\* empty system the outcome depends on the numpy at hand (an empty vector,
\* or an error), so both are possible.
solve(K, F) ==
    IF Len(K) = 0
    THEN {[raised |-> FALSE, x |-> <<>>], [raised |-> TRUE, x |-> <<>>]}
    ELSE IF Det(K) = 0
    THEN {[raised |-> TRUE, x |-> <<>>]}
    ELSE {[raised |-> FALSE,
           x |-> [c \in 1..Len(K) |-> Rat(Det(ReplaceCol(K, c, F)), Det(K))]]}

\* K[ilist, :][:, ilist] and F[ilist] for a list of 0-based positions
SubMatrix(K, ilist) ==
    [a \in 1..Len(ilist) |-> [b \in 1..Len(ilist) |-> K[ilist[a] + 1][ilist[b] + 1]]]
SubVector(F, ilist) == [a \in 1..Len(ilist) |-> F[ilist[a] + 1]]

VecMax(F) == CHOOSE a \in Range(F) : \A b \in Range(F) : b <= a
VecMin(F) == CHOOSE a \in Range(F) : \A b \in Range(F) : a <= b

\* reverse_dict: the inverse of the index map
reverse_dict(d) ==
    [v \in {d[k] : k \in DOMAIN d} |-> CHOOSE k \in DOMAIN d : d[k] = v]

-----------------------------------------------------------------------------
(* _solve *)

\* variant of SolveEntry that asserts max(F) != min(F) whatever F[0] is
SolveEntryAnyFirst(F) ==
    IF Len(F) = 0 THEN "IndexError"
    ELSE IF VecMax(F) = VecMin(F) THEN "AssertionError"
    ELSE ""

\* the entry check: F[0] of an empty F is an IndexError, an all-zero F
\* trips the assertion 'no load is applied...'
SolveEntry(F) ==
    IF Len(F) = 0 THEN "IndexError"
    ELSE IF F[1] = 0 /\ VecMax(F) = VecMin(F) THEN "AssertionError"
    ELSE ""

\* variant of IsFailedRow that tests the first column instead of the diagonal
IsFailedRowFirstColumn(K, i) == K[i + 1][1] = 0

\* whether position i (0-based) of dofs is reported as singular
IsFailedRow(K, i) == K[i + 1][i + 1] = 0

\* the loop of the except block: failed (the [nid, dof] pairs) and faileds
\* (the positions), for positions i .. len(dofs) - 1 of dofs
RECURSIVE FailedLoop(_, _, _, _)
FailedLoop(K, dofs, IDtoNid, i) ==
    IF i >= Len(dofs) THEN [failed |-> <<>>, faileds |-> <<>>]
    ELSE LET rest == FailedLoop(K, dofs, IDtoNid, i + 1)
             nd   == IDtoNid[dofs[i + 1]]
         IN  IF IsFailedRow(K, i)
             THEN [failed |-> <<nd>> \o rest.failed, faileds |-> <<i>> \o rest.faileds]
             ELSE rest

\* variant of KeptRows that removes no row
KeptRowsAll(n, faileds) == Sorted(0..(n - 1))

\* ilist = sorted(set(range(len(dofs))) - set(faileds))
KeptRows(n, faileds) == Sorted((0..(n - 1)) \ Range(faileds))

\* U = zeros(len(F)); U[ilist] = U2
PutBack(n, ilist, U2) ==
    [k \in 1..n |->
        IF (k - 1) \in Range(ilist)
        THEN U2[CHOOSE a \in 1..Len(ilist) : ilist[a] = k - 1]
        ELSE Zero]

\* the AUTOSPC switch of the except block: 'if 1:' and 'value = 1' stand in
\* for the commented-out read of PARAM,AUTOSPC, so the parameter of the
\* model is not consulted
AutospcValue(m) == 1

\* variant of ResolveFailure that returns zeros instead of raising
ResolveFailureSwallowed(n) == [pc |-> "scatter", err |-> "", U |-> Zeros(n)]

\* U2 = solve(K2, F2) stands in no try block of its own: when it raises,
\* the error leaves _solve and nothing is returned
ResolveFailure(n) == [pc |-> "raised", err |-> "LinAlgError", U |-> <<>>]

\* try: U = solve(K, F)
SolveDirect ==
    /\ pc = "_solve"
    /\ failed' = <<>>
    /\ IF SolveEntry(Fa) # ""
       THEN /\ pc' = "raised"
            /\ err' = SolveEntry(Fa)
            /\ nsolve' = 0
            /\ Ua' = <<>>
       ELSE \E r \in solve(Kaa, Fa) :
            /\ nsolve' = 1
            /\ err' = ""
            /\ IF r.raised
               THEN pc' = "_solve_except" /\ Ua' = <<>>
               ELSE pc' = "scatter" /\ Ua' = r.x
    /\ UNCHANGED <<model, indexVars, sgVars, sbVars, sVars, ggVars, argVars, outVars,
                   massVars, mpVars, mVars, setVars, gpwgVars, caseVars>>

\* except: the singularity table, then the AUTOSPC re-solve
SolveRecover ==
    /\ pc = "_solve_except"
    /\ LET fl    == FailedLoop(Kaa, dofs2, reverse_dict(nidComponentToID), 0)
           ilist == KeptRows(Len(dofs2), fl.faileds)
       IN  /\ failed' = fl.failed
           /\ IF AutospcValue(model) = 1
              THEN \E r \in solve(SubMatrix(Kaa, ilist), SubVector(Fa, ilist)) :
                   /\ nsolve' = nsolve + 1
                   /\ IF r.raised
                      THEN /\ pc' = ResolveFailure(Len(Fa)).pc
                           /\ err' = ResolveFailure(Len(Fa)).err
                           /\ Ua' = ResolveFailure(Len(Fa)).U
                      ELSE /\ pc' = "scatter"
                           /\ err' = ""
                           /\ Ua' = PutBack(Len(Fa), ilist, r.x)
              ELSE /\ pc' = "raised"
                   /\ err' = "LinAlgError"
                   /\ UNCHANGED <<nsolve, Ua>>
    /\ UNCHANGED <<model, indexVars, sgVars, sbVars, sVars, ggVars, argVars, outVars,
                   massVars, mpVars, mVars, setVars, gpwgVars, caseVars>>

-----------------------------------------------------------------------------
(* _solve on its own: free-DOF systems of one grid point.                 *)

\* most rows of a free-DOF matrix handed to _solve
MaxN == 2

KVals == {-1, 0, 1}
FVals == {0, 1}

SymMatrices(n) ==
    {K \in [1..n -> [1..n -> KVals]] : \A a, b \in 1..n : K[a][b] = K[b][a]}

\* ascending lists of n global indices among 0 .. n
FreeLists(n) ==
    {d \in [1..n -> 0..n] : \A a, b \in 1..n : a < b => d[a] < d[b]}

SolveGrid == [node_id |-> <<2>>, ps |-> <<-1>>, spoint |-> <<>>] @@ NoCase

InitSolve ==
    /\ \E a \in {"absent", "YES", "NO"} : model = [SolveGrid EXCEPT !.autospc = a]
    /\ pc = "_solve"
    /\ err = ""
    /\ nidComponentToID = build_nid_component_to_id(SolveGrid, <<>>, <<>>).map
    /\ ndofs = build_nid_component_to_id(SolveGrid, <<>>, <<>>).i
    /\ mp_index = 1
    /\ iUsg = <<>> /\ Usg = <<>>
    /\ iUsb = <<>> /\ Usb = <<>>
    /\ iUs = <<>> /\ Us = <<>>
    /\ Kgg = <<>> /\ Fg = <<>>
    /\ Mgg = <<>>
    /\ iUmp = <<>> /\ jUmp = <<>> /\ Ump = <<>>
    /\ iUm = <<>> /\ jUm = <<>> /\ Um = <<>>
    /\ base = EmptyBase /\ derived = NoDerived
    /\ \E n \in 1..MaxN :
           /\ Kaa \in SymMatrices(n)
           /\ Fa \in [1..n -> FVals]
           /\ dofs2 \in FreeLists(n)
    /\ failed = <<>> /\ nsolve = 0 /\ Ua = <<>>
    /\ U = <<>> /\ nwrites = <<>>
    /\ grid_point_weight = NoWeight /\ case_result_flags = NoFlags

NextSolve == SolveDirect \/ SolveRecover

SpecSolve == InitSolve /\ [][NextSolve]_vars

-----------------------------------------------------------------------------
(* Claims about _solve, checked under SpecSolve. *)

SolveEnded == pc \in {"scatter", "raised"}

\* positions (1-based) of the rows of Kaa with an exactly zero diagonal
ZeroDiag == {a \in 1..Len(Kaa) : Kaa[a][a] = 0}
KeptDiag == (1..Len(Kaa)) \ ZeroDiag

\* the system with the zero-diagonal rows and columns removed
ReducedK == SubMatrix(Kaa, Sorted({a - 1 : a \in KeptDiag}))
ReducedIsRegular == KeptDiag # {} /\ Det(ReducedK) # 0

RECURSIVE RowTimes(_, _, _, _)
RowTimes(K, x, a, b) ==
    IF b > Len(x) THEN Zero
    ELSE IF b \in KeptDiag
    THEN RatAdd(RatTimes(K[a][b], x[b]), RowTimes(K, x, a, b + 1))
    ELSE RowTimes(K, x, a, b + 1)

\* x is zero at the zero-diagonal rows and solves the reduced system elsewhere
SolvesReduced(x) ==
    /\ Len(x) = Len(Fa)
    /\ \A a \in ZeroDiag : x[a] = Zero
    /\ \A a \in KeptDiag : RowTimes(Kaa, x, a, 1) = <<Fa[a], 1>>

\* C6 as claimed: for a Ka with one exactly zero diagonal entry (a load
\* applied, the reduced system regular) _solve returns a full-length vector
\* that is zero at that DOF and solves the reduced system elsewhere.
C6_ZeroDiagonalIsRecovered ==
    (SolveEnded /\ Cardinality(ZeroDiag) = 1 /\ SolveEntry(Fa) = "" /\ ReducedIsRegular)
        => (pc = "scatter" /\ SolvesReduced(Ua))

\* C6 as amended: the same, for a Ka on which the direct solve fails (a
\* singular Ka); a regular Ka with a zero diagonal entry is solved as it is.
C6_SingularZeroDiagonalIsRecovered ==
    (SolveEnded /\ Cardinality(ZeroDiag) = 1 /\ SolveEntry(Fa) = "" /\ ReducedIsRegular
        /\ Det(Kaa) = 0)
        => (pc = "scatter" /\ nsolve = 2 /\ SolvesReduced(Ua))

C6_Witness ==
    /\ pc = "scatter"
    /\ nsolve = 2
    /\ Len(Kaa) = 2
    /\ ZeroDiag = {1}
    /\ Ua = <<Zero, <<-1, 1>>>>

\* C7: when the direct solve fails, the rows reported as singular are exactly
\* the rows i with Ka[i, i] = 0, each as the (entity id, component) pair
\* whose global index is dofs[i], in the order of the rows.
C7_ReportedRowsAreZeroDiagonal ==
    (SolveEnded /\ nsolve = 2) =>
        /\ Len(failed) = Cardinality(ZeroDiag)
        /\ \A k \in 1..Len(failed) :
               /\ failed[k] \in DOMAIN nidComponentToID
               /\ \E a \in ZeroDiag : nidComponentToID[failed[k]] = dofs2[a]
        /\ \A a \in ZeroDiag : \E k \in 1..Len(failed) :
               nidComponentToID[failed[k]] = dofs2[a]
        /\ \A k, l \in 1..Len(failed) :
               k < l => nidComponentToID[failed[k]] < nidComponentToID[failed[l]]

C7_Witness ==
    /\ SolveEnded
    /\ nsolve = 2
    /\ dofs2 = <<1, 2>>
    /\ Kaa[1][1] # 0
    /\ failed = << <<2, 3>> >>

\* C8: the recovery is tried at most once: no run of _solve calls the
\* solver more than twice, and when the re-solve of the reduced system fails
\* as well, the error leaves _solve and no vector is returned.
C8_AtMostOneResolve ==
    /\ nsolve <= 2
    /\ (SolveEnded /\ nsolve = 2 /\ KeptDiag # {} /\ Det(ReducedK) = 0)
           => (pc = "raised" /\ err = "LinAlgError" /\ Ua = <<>>)
    /\ (pc = "raised") => Ua = <<>>

C8_Witness ==
    /\ pc = "raised"
    /\ nsolve = 2
    /\ ZeroDiag = {}
    /\ Len(Kaa) = 2

\* C9: with the automatic constraint switched off (PARAM,AUTOSPC,NO) a
\* singular free-DOF system ends the solve with the error: no second solve,
\* no vector returned.
C9_DisabledRecoveryStops ==
    (model.autospc = "NO") =>
        /\ nsolve <= 1
        /\ (pc = "scatter") => Det(Kaa) # 0

\* C29: _solve rejects a non-empty load vector whose entries are all zero
\* with the assertion 'no load is applied' before any solve or recovery, and
\* accepts every non-empty load vector with a non-zero entry.
C29_AllZeroLoadIsRejected ==
    (pc # "_solve" /\ Len(Fa) > 0) =>
        /\ (\A k \in 1..Len(Fa) : Fa[k] = 0) =>
               (pc = "raised" /\ err = "AssertionError" /\ nsolve = 0 /\ failed = <<>>)
        /\ (\E k \in 1..Len(Fa) : Fa[k] # 0) =>
               (err # "AssertionError" /\ nsolve >= 1)

\* a two-row zero load has been rejected before any solve
C29_Witness ==
    /\ pc = "raised" /\ err = "AssertionError"
    /\ Fa = <<0, 0>> /\ nsolve = 0 /\ Ua = <<>>

-----------------------------------------------------------------------------
(* apply_SPCs *)

\* the (nid, component) keys one constraint record asks for, in the order of
\* the loops: spc.components of an SPC1 maps a component string to node ids
\* (components outer, nodes inner); spc.components of an SPC lists
\* (component, node id) pairs, held in the field pairs here, and the enforced
\* displacement of each pair in the field values
RECURSIVE Spc1Keys(_, _, _)
Spc1Keys(dof, node_ids, a) ==
    IF a > Len(dof) THEN <<>>
    ELSE [b \in 1..Len(node_ids) |-> <<node_ids[b], dof[a]>>] \o Spc1Keys(dof, node_ids, a + 1)

RECURSIVE Spc1Items(_, _)
Spc1Items(components, a) ==
    IF a > Len(components) THEN <<>>
    ELSE Spc1Keys(components[a][1], components[a][2], 1) \o Spc1Items(components, a + 1)

SpcKeys(spc) ==
    IF spc.type = "SPC1" THEN Spc1Items(spc.components, 1)
    ELSE [a \in 1..Len(spc.pairs) |-> <<spc.pairs[a][2], spc.pairs[a][1]>>]

\* variant of SpcValue that keeps the enforced value of the record
SpcValueEnforced(spc, a) == <<spc.values[a], 1>>

\* the value appended to Usb for the a-th pair of an SPC record
SpcValue(spc, a) == Zero

\* variant of AlreadyListed that never finds the index
AlreadyListedNever(i, self_iUsb) == FALSE

\* 'i in self.iUsb'
AlreadyListed(i, self_iUsb) == i \in Range(self_iUsb)

\* the lookups and appends of one record; st = [raised, iUsb, Usb]
RECURSIVE SpcAppend(_, _, _, _, _)
SpcAppend(spc, keys, a, map, st) ==
    IF a > Len(keys) \/ st.raised # "" THEN st
    ELSE IF keys[a] \notin DOMAIN map
    THEN [st EXCEPT !.raised = "KeyError"]
    ELSE LET i == map[keys[a]]
         IN  SpcAppend(spc, keys, a + 1, map,
                 IF ~AlreadyListed(i, st.iUsb)
                 THEN [st EXCEPT !.iUsb = Append(@, i),
                                 !.Usb = Append(@, IF spc.type = "SPC1" THEN Zero
                                                   ELSE SpcValue(spc, a))]
                 ELSE st)

\* the loop over the records of the applied SPC sets
RECURSIVE apply_SPCs(_, _, _, _)
apply_SPCs(spcs, a, map, st) ==
    IF a > Len(spcs) \/ st.raised # "" THEN st
    ELSE IF spcs[a].type \notin {"SPC", "SPC1"}
    THEN [st EXCEPT !.raised = "NotImplementedError"]
    ELSE apply_SPCs(spcs, a + 1, map, SpcAppend(spcs[a], SpcKeys(spcs[a]), 1, map, st))

\* model.get_SPCx_ids(exclude_spcadd=True): the set ids of the SPC and SPC1
\* records of the model, ascending
get_SPCx_ids(m) ==
    Sorted({m.spcs[r].sid : r \in {r \in 1..Len(m.spcs) : m.spcs[r].type # "SPCADD"}})

\* model.SPC(spc_id): the records of one set, in model order
SPC(m, spc_id) == SelectSeq(m.spcs, LAMBDA r : r.sid = spc_id)

\* variant of SpcIds that applies every set whatever the case asks for
SpcIdsEverySet(m) == get_SPCx_ids(m)

\* spc_ids: every set of the model when the case has no SPC parameter, the
\* one set of the parameter otherwise
SpcIds(m) ==
    IF m.case_spc = 0 THEN get_SPCx_ids(m) ELSE <<m.case_spc>>

\* the loop over spc_ids
RECURSIVE SpcSetLoop(_, _, _, _, _)
SpcSetLoop(m, ids, a, map, st) ==
    IF a > Len(ids) \/ st.raised # "" THEN st
    ELSE SpcSetLoop(m, ids, a + 1, map, apply_SPCs(SPC(m, ids[a]), 1, map, st))

ApplySPCs ==
    /\ pc = "apply_SPCs"
    /\ LET r == SpcSetLoop(model, SpcIds(model), 1, nidComponentToID,
                           [raised |-> "", iUsb |-> iUsb, Usb |-> Usb])
       IN  /\ iUsb' = r.iUsb
           /\ Usb' = r.Usb
           /\ err' = r.raised
           /\ pc' = IF r.raised = "" THEN "apply_MPCs" ELSE "raised"
    /\ UNCHANGED <<model, indexVars, sgVars, sVars, ggVars, argVars, solveVars, outVars,
                   massVars, mpVars, mVars, setVars, gpwgVars, caseVars>>

-----------------------------------------------------------------------------
(* apply_MPCs *)

\* model.MPC(mpc_id): the records of one MPC set, in model order
MPC(m, mpc_id) == SelectSeq(m.mpcs, LAMBDA r : r.sid = mpc_id)

\* i = mp_index + iconstraint, computed once for each equation
MpcTarget(mp, iconstraint) == mp + iconstraint

\* the terms (G, C, A) of one equation; st = [raised, iconstraint, iUmp, jUmp, Ump]
RECURSIVE MpcTerms(_, _, _, _, _)
MpcTerms(constraints, i, t, map, st) ==
    IF t > Len(constraints) \/ st.raised # "" THEN st
    ELSE LET key == <<constraints[t][1], constraints[t][2]>>
         IN  IF key \notin DOMAIN map
             THEN [st EXCEPT !.raised = "KeyError"]
             ELSE MpcTerms(constraints, i, t + 1, map,
                      [st EXCEPT !.iconstraint = @ + 1,
                                 !.Ump = Append(@, constraints[t][3]),
                                 !.iUmp = Append(@, i),
                                 !.jUmp = Append(@, map[key])])

\* the equations of one MPC record
RECURSIVE MpcEquations(_, _, _, _, _)
MpcEquations(mpc, c, mp, map, st) ==
    IF c > Len(mpc.constraints) \/ st.raised # "" THEN st
    ELSE MpcEquations(mpc, c + 1, mp, map,
             MpcTerms(mpc.constraints[c],
                      MpcTarget(mp, st.iconstraint), 1, map, st))

\* the loop over the records of the MPC set of the case
RECURSIVE apply_MPCs(_, _, _, _, _)
apply_MPCs(mpcs, a, mp, map, st) ==
    IF a > Len(mpcs) \/ st.raised # "" THEN st
    ELSE IF mpcs[a].type # "MPC"
    THEN [st EXCEPT !.raised = "NotImplementedError"]
    ELSE apply_MPCs(mpcs, a + 1, mp, map, MpcEquations(mpcs[a], 1, mp, map, st))

ApplyMPCs ==
    /\ pc = "apply_MPCs"
    /\ LET st0 == [raised |-> "", iconstraint |-> mp_index,
                   iUmp |-> iUmp, jUmp |-> jUmp, Ump |-> Ump]
           r == IF model.case_mpc # 0
                THEN apply_MPCs(MPC(model, model.case_mpc), 1, mp_index,
                                nidComponentToID, st0)
                ELSE st0
       IN  /\ iUmp' = r.iUmp
           /\ jUmp' = r.jUmp
           /\ Ump' = r.Ump
           /\ err' = r.raised
           /\ pc' = IF r.raised = "" THEN "get_Mgg" ELSE "raised"
    /\ UNCHANGED <<model, indexVars, sgVars, sbVars, sVars, ggVars, argVars,
                   solveVars, outVars, massVars, mVars, setVars, gpwgVars, caseVars>>

-----------------------------------------------------------------------------
(* get_Mgg(force_calcs=True): assemble_global_mass_matrix, add_mass and the
   reference point of make_gpwg *)

\* zeros((n, n))
ZeroMatrix(n) == [a \in 1..n |-> [b \in 1..n |-> 0]]

\* index0s[nid] = 6 * i for the i-th grid point
index0s(m) ==
    [nid \in Range(m.node_id) |-> 6 * ((CHOOSE k \in 1..Len(m.node_id) : m.node_id[k] = nid) - 1)]

\* the element provider, mass side: the local matrix and the global indices
\* of its rows; a contribution carries both, the rods of the cases are massless
get_mass_matrix(e, i0) ==
    IF e.type = "CONTRIB"
    THEN [M |-> e.M, dofs |-> e.dofs]
    ELSE [M |-> ZeroMatrix(2), dofs |-> <<i0[e.nodes[1]], i0[e.nodes[2]]>>]

\* variant of AddMassEntry that fills the upper triangle only
AddMassEntryUpper(G, M, dofs, a, b) ==
    IF Abs(M[a][b]) > 0 /\ dofs[a] <= dofs[b]
    THEN [G EXCEPT ![dofs[a] + 1][dofs[b] + 1] = @ + M[a][b]]
    ELSE G

\* Mgg[dof1, dof2] += M[i, j] for one (i, j), skipped when M[i, j] is zero
AddMassEntry(G, M, dofs, a, b) ==
    IF Abs(M[a][b]) > 0
    THEN [G EXCEPT ![dofs[a] + 1][dofs[b] + 1] = @ + M[a][b]]
    ELSE G

\* the double loop of add_mass, pair number p = (a - 1) * n + b
RECURSIVE add_mass(_, _, _, _)
add_mass(G, M, dofs, p) ==
    IF p > Len(dofs) * Len(dofs) THEN G
    ELSE add_mass(
             AddMassEntry(G, M, dofs, ((p - 1) \div Len(dofs)) + 1, ((p - 1) % Len(dofs)) + 1),
             M, dofs, p + 1)

\* the elements whose mass goes through add_mass (springs have no mass loop)
HasMassLoop(e) == e.type \in {"CROD", "CONTRIB"}

\* the loops over the elements once the CONM1 loop is passed
RECURSIVE assemble_global_mass_matrix(_, _, _)
assemble_global_mass_matrix(m, a, G) ==
    IF a > Len(m.elems) THEN G
    ELSE IF ~HasMassLoop(m.elems[a]) THEN assemble_global_mass_matrix(m, a + 1, G)
    ELSE LET e == get_mass_matrix(m.elems[a], index0s(m))
         IN  assemble_global_mass_matrix(m, a + 1, add_mass(G, e.M, e.dofs, 1))

\* 'grid_point = 2' in make_gpwg replaces the argument
gpwg_grid_point(grid_point) == 2

\* assemble_global_mass_matrix asserts nnodes > 0 and reads the undefined
\* name 'index' for a CONM1; then ref_point = self.positions[grid_point] of
\* make_gpwg needs that grid point in the model.  get_Mgg passes
\* grid_point = 0 (force_calcs sets GRDPNT to 0).  Of the result record the
\* pipeline keeps the reference point; the matrices of the record are
\* computed by MakeGpwg below
GetMgg ==
    /\ pc = "get_Mgg"
    /\ IF Len(model.node_id) = 0
       THEN /\ pc' = "raised" /\ err' = "AssertionError" /\ Mgg' = Mgg
            /\ UNCHANGED gpwgVars
       ELSE IF \E a \in 1..Len(model.elems) : model.elems[a].type = "CONM1"
       THEN /\ pc' = "raised" /\ err' = "NameError" /\ Mgg' = ZeroMatrix(ndofs)
            /\ UNCHANGED gpwgVars
       ELSE /\ Mgg' = assemble_global_mass_matrix(model, 1, ZeroMatrix(ndofs))
            /\ IF gpwg_grid_point(0) \in {-1, 0} \/ gpwg_grid_point(0) \in Range(model.node_id)
               THEN /\ pc' = "assemble_global_stiffness_matrix" /\ err' = ""
                    /\ grid_point_weight' =
                           [grid_point_weight EXCEPT !.made = TRUE,
                                                     !.reference_point = gpwg_grid_point(0)]
               ELSE /\ pc' = "raised" /\ err' = "KeyError"
                    /\ UNCHANGED gpwgVars
    /\ UNCHANGED <<model, indexVars, sgVars, sbVars, sVars, ggVars, argVars,
                   solveVars, outVars, mpVars, mVars, setVars, caseVars>>

-----------------------------------------------------------------------------
(* assemble_global_stiffness_matrix and add_stiffness *)

\* the element provider: the local matrix and the global indices of its rows
get_stiffness_matrix(e, i0) ==
    IF e.type = "CROD"
    THEN [K |-> << <<e.k, -e.k>>, <<-e.k, e.k>> >>,
          dofs |-> <<i0[e.nodes[1]], i0[e.nodes[2]]>>]
    ELSE IF e.type = "CONTRIB"
    THEN [K |-> e.K, dofs |-> e.dofs]
    ELSE [K |-> << <<e.k>> >>, dofs |-> <<i0[e.nodes[1]] + e.comp - 1>>]

\* variant of AddEntry that assigns instead of accumulating
AddEntryOverwrites(G, K, dofs, a, b) ==
    IF Abs(K[a][b]) > 0
    THEN [G EXCEPT ![dofs[a] + 1][dofs[b] + 1] = K[a][b]]
    ELSE G

\* Kgg[dof1, dof2] += K[i, j] for one (i, j), skipped when K[i, j] is zero
AddEntry(G, K, dofs, a, b) ==
    IF Abs(K[a][b]) > 0
    THEN [G EXCEPT ![dofs[a] + 1][dofs[b] + 1] = @ + K[a][b]]
    ELSE G

\* the double loop of add_stiffness, pair number p = (a - 1) * n + b
RECURSIVE add_stiffness(_, _, _, _)
add_stiffness(G, K, dofs, p) ==
    IF p > Len(dofs) * Len(dofs) THEN G
    ELSE add_stiffness(
             AddEntry(G, K, dofs, ((p - 1) \div Len(dofs)) + 1, ((p - 1) % Len(dofs)) + 1),
             K, dofs, p + 1)

\* the elements that have a stiffness loop (a CONM1 has none)
HasStiffnessLoop(e) == e.type # "CONM1"

RECURSIVE assemble_global_stiffness_matrix(_, _, _)
assemble_global_stiffness_matrix(m, a, G) ==
    IF a > Len(m.elems) THEN G
    ELSE IF ~HasStiffnessLoop(m.elems[a]) THEN assemble_global_stiffness_matrix(m, a + 1, G)
    ELSE LET e == get_stiffness_matrix(m.elems[a], index0s(m))
         IN  assemble_global_stiffness_matrix(m, a + 1, add_stiffness(G, e.K, e.dofs, 1))

AssembleStiffness ==
    /\ pc = "assemble_global_stiffness_matrix"
    /\ Kgg' = assemble_global_stiffness_matrix(model, 1, ZeroMatrix(ndofs))
    /\ pc' = "assemble_forces"
    /\ UNCHANGED <<model, err, indexVars, sgVars, sbVars, sVars, Fg, argVars,
                   solveVars, outVars,
                   massVars, mpVars, mVars, setVars, gpwgVars, caseVars>>

-----------------------------------------------------------------------------
(* assemble_forces *)

\* variant of AddLoad that assigns instead of accumulating
AddLoadOverwrites(st, map, nid, comp, v) ==
    IF st.raised # "" \/ ~(Abs(v) > 0) THEN st
    ELSE IF <<nid, comp>> \notin DOMAIN map THEN [st EXCEPT !.raised = "KeyError"]
    ELSE [st EXCEPT !.Fg[map[<<nid, comp>>] + 1] = v]

\* Fg[Dofs[(nid, ni + c)]] += v, skipped when v is zero; st = [raised, Fg]
AddLoad(st, map, nid, comp, v) ==
    IF st.raised # "" \/ ~(Abs(v) > 0) THEN st
    ELSE IF <<nid, comp>> \notin DOMAIN map THEN [st EXCEPT !.raised = "KeyError"]
    ELSE [st EXCEPT !.Fg[map[<<nid, comp>>] + 1] = @ + v]

\* the rows of one FORCE (ni = 0) or MOMENT (ni = 3) record
RECURSIVE LoadRows(_, _, _, _, _)
LoadRows(load, ni, i, map, st) ==
    IF i > Len(load.node_id) \/ st.raised # "" THEN st
    ELSE LET nid == load.node_id[i]
             x   == load.mag[i] * load.xyz[i][1]
             y   == load.mag[i] * load.xyz[i][2]
             z   == load.mag[i] * load.xyz[i][3]
         IN  LoadRows(load, ni, i + 1, map,
                 AddLoad(AddLoad(AddLoad(st, map, nid, ni + 1, x), map, nid, ni + 2, y),
                         map, nid, ni + 3, z))

\* variant of UnsupportedLoad that passes over the load
UnsupportedLoadSkipped(st, load) == st

\* the else branch of the type test: raise NotImplementedError(load.type)
UnsupportedLoad(st, load) == [st EXCEPT !.raised = "NotImplementedError"]

RECURSIVE assemble_forces(_, _, _, _)
assemble_forces(loads, a, map, st) ==
    IF a > Len(loads) \/ st.raised # "" THEN st
    ELSE IF loads[a].type \in {"FORCE", "MOMENT"}
    THEN assemble_forces(loads, a + 1, map,
             LoadRows(loads[a], IF loads[a].type = "FORCE" THEN 0 ELSE 3, 1, map, st))
    ELSE assemble_forces(loads, a + 1, map, UnsupportedLoad(st, loads[a]))

AssembleForces ==
    /\ pc = "assemble_forces"
    /\ LET r == assemble_forces(model.loads, 1, nidComponentToID,
                                [raised |-> "", Fg |-> [k \in 1..ndofs |-> 0]])
       IN  IF r.raised = ""
           THEN Fg' = r.Fg /\ pc' = "build_dof_sets" /\ err' = ""
           ELSE Fg' = Fg /\ pc' = "raised" /\ err' = r.raised
    /\ UNCHANGED <<model, indexVars, sgVars, sbVars, sVars, Kgg, argVars,
                   solveVars, outVars,
                   massVars, mpVars, mVars, setVars, gpwgVars, caseVars>>

-----------------------------------------------------------------------------
(* build_dof_sets *)

\* variant of Concat that puts the right operand first
ConcatReversed(a, b) == b \o a

\* the + of two Python lists
Concat(a, b) == a \o b

\* the derived sets other than s and m, each from its operands
DerivedSets(s_i, s_U, m_i, m_U, b) ==
    LET iUl == Concat(b.iUc, b.iUlm)   Ul == Concat(b.Uc, b.Ulm)
        iUt == Concat(iUl, b.iUr)      Ut == Concat(Ul, b.Ur)
        iUa == Concat(iUt, b.iUq)      Ua_ == Concat(Ut, b.Uq)
        iUf == Concat(iUa, b.iUo)      Uf == Concat(Ua_, b.Uo)
        iUn == Concat(iUf, s_i)        Un == Concat(Uf, s_U)
        iUg == Concat(iUn, m_i)        Ug == Concat(Un, m_U)
    IN  [iUl |-> iUl, Ul |-> Ul, iUt |-> iUt, Ut |-> Ut, iUa |-> iUa, Ua |-> Ua_,
         iUd |-> Concat(iUa, b.iUe), Ud |-> Concat(Ua_, b.Ue),
         iUf |-> iUf, Uf |-> Uf,
         iUfe |-> Concat(iUf, b.iUe), Ufe |-> Concat(Uf, b.Ue),
         iUn |-> iUn, Un |-> Un,
         iUne |-> Concat(iUn, b.iUe), Une |-> Concat(Un, b.Ue),
         iUg |-> iUg, Ug |-> Ug,
         iUp |-> Concat(iUg, b.iUe), Up |-> Concat(Ug, b.Ue),
         iUks |-> Concat(b.iUk, b.iUsa), Uks |-> Concat(b.Uk, b.Usa),
         iUjs |-> Concat(b.iUj, b.iUsa), Ujs |-> Concat(b.Uj, b.Usa),
         iUfr |-> Concat(b.iUo, iUl), Ufr |-> Concat(b.Uo, Ul),
         iUv |-> Concat(Concat(b.iUo, b.iUc), b.iUr),
         Uv |-> Concat(Concat(b.Uo, b.Uc), b.Ur)]

\* variant of build_dof_sets in which self.iUs and self.Us are the lists of
\* sb themselves, extended in place by sg
build_dof_sets_in_place(from, to) ==
    /\ pc = from
    /\ Us' = Concat(Usb, Usg) /\ Usb' = Concat(Usb, Usg)
    /\ iUs' = Concat(iUsb, iUsg) /\ iUsb' = Concat(iUsb, iUsg)
    /\ Um' = Concat(Ump, base.Umr)
    /\ iUm' = Concat(iUmp, base.iUmr)
    /\ jUm' = Concat(jUmp, base.jUmr)
    /\ derived' = DerivedSets(Concat(iUsb, iUsg), Concat(Usb, Usg),
                              Concat(iUmp, base.iUmr), Concat(Ump, base.Umr), base)
    /\ pc' = to
    /\ UNCHANGED <<model, err, indexVars, sgVars, ggVars, argVars,
                   solveVars, outVars, massVars, mpVars, base, gpwgVars, caseVars>>

\* one call of build_dof_sets, made at position from and leading to position to
build_dof_sets(from, to) ==
    /\ pc = from
    /\ Us' = Concat(Usb, Usg)
    /\ iUs' = Concat(iUsb, iUsg)
    /\ Um' = Concat(Ump, base.Umr)
    /\ iUm' = Concat(iUmp, base.iUmr)
    /\ jUm' = Concat(jUmp, base.jUmr)
    /\ derived' = DerivedSets(Concat(iUsb, iUsg), Concat(Usb, Usg),
                              Concat(iUmp, base.iUmr), Concat(Ump, base.Umr), base)
    /\ pc' = to
    /\ UNCHANGED <<model, err, indexVars, sgVars, sbVars, ggVars, argVars,
                   solveVars, outVars, massVars, mpVars, base, gpwgVars, caseVars>>

\* the call of run_sol_101
BuildDofSets == build_dof_sets("build_dof_sets", "solve_sol_101")

-----------------------------------------------------------------------------
(* solve_sol_101: the partition by the s-set, then _solve *)

\* the indices of [0, n) outside dofs, ascending
remove_dofs(n, dofs) == Sorted((0..(n - 1)) \ Range(dofs))

partition_dense_symmetric(A, dofs_in) ==
    LET dofs == remove_dofs(Len(A), dofs_in)
    IN  [B |-> SubMatrix(A, dofs), dofs |-> dofs]

partition_dense_vector(F, dofs_in) ==
    LET dofs == remove_dofs(Len(F), dofs_in)
    IN  [B |-> SubVector(F, dofs), dofs |-> dofs]

\* Kgg[i, j] = a
MpcWrite(G, i, j, a) == [G EXCEPT ![i + 1][j + 1] = a]

\* for (i, j, a) in zip(self.iUm, self.jUm, self.Um): Kgg[i, j] = a, on the
\* array assembly returned; st = [raised, Kgg]
RECURSIVE MpcWrites(_, _, _, _, _)
MpcWrites(is, js, as, k, st) ==
    IF k > Len(is) \/ k > Len(js) \/ k > Len(as) \/ st.raised # "" THEN st
    ELSE IF is[k] >= Len(st.Kgg) \/ js[k] >= Len(st.Kgg)
    THEN [st EXCEPT !.raised = "IndexError"]
    ELSE MpcWrites(is, js, as, k + 1,
                   [st EXCEPT !.Kgg = MpcWrite(@, is[k], js[k], as[k])])

SolveSol101 ==
    /\ pc = "solve_sol_101"
    /\ LET r == MpcWrites(iUm, jUm, Um, 1, [raised |-> "", Kgg |-> Kgg])
       IN  /\ Kgg' = r.Kgg
           /\ IF r.raised = ""
              THEN /\ Kaa' = partition_dense_symmetric(r.Kgg, iUs).B
                   /\ dofs2' = partition_dense_symmetric(r.Kgg, iUs).dofs
                   /\ Fa' = partition_dense_vector(Fg, iUs).B
                   /\ pc' = "_solve"
                   /\ err' = ""
              ELSE /\ UNCHANGED argVars
                   /\ pc' = "raised"
                   /\ err' = r.raised
    /\ UNCHANGED <<model, indexVars, sgVars, sbVars, sVars, Fg, solveVars,
                   outVars, massVars, mpVars, mVars, setVars, gpwgVars, caseVars>>

-----------------------------------------------------------------------------
(* run_sol_101: the scatter of Us and Ua into U *)

\* variant of ScatterLoop that writes nothing
ScatterLoopNoWrite(idx, val, a, st) == st

\* for (i, iu) in enumerate(idx): U[iu] = val[i]; st = [U, n] with n the
\* number of writes each index has received
RECURSIVE ScatterLoop(_, _, _, _)
ScatterLoop(idx, val, a, st) ==
    IF a > Len(idx) THEN st
    ELSE ScatterLoop(idx, val, a + 1,
             [U |-> [st.U EXCEPT ![idx[a] + 1] = val[a]],
              n |-> [st.n EXCEPT ![idx[a] + 1] = @ + 1]])


Scatter ==
    /\ pc = "scatter"
    /\ LET dofsA == remove_dofs(ndofs, iUs)
           s0 == [U |-> Zeros(ndofs), n |-> [k \in 1..ndofs |-> 0]]
           s1 == ScatterLoop(iUs, Us, 1, s0)
           s2 == ScatterLoop(dofsA, Ua, 1, s1)
       IN  U' = s2.U /\ nwrites' = s2.n
    /\ pc' = "done"
    /\ UNCHANGED <<model, err, indexVars, sgVars, sbVars, sVars, ggVars, argVars,
                   solveVars,
                   massVars, mpVars, mVars, setVars, gpwgVars, caseVars>>

-----------------------------------------------------------------------------
(* The static cases run end to end. *)

\* largest stiffness of an element and largest magnitude of a load
MaxStiffness == 2
MaxForce == 2

\* the grid points of a case, in model order
CaseGridLists == {<<1>>, <<2>>, <<1, 2>>, <<2, 1>>}
CasePs == {-1, 1, 123456}
Stiffnesses == 1..MaxStiffness
Forces == 1..MaxForce
Enforced == {0, 1}

\* no record, or one record of S
Opt(S) == {<<>>} \cup {<<x>> : x \in S}

SpcRecords(g) ==
    {[type |-> "SPC1", sid |-> 1, components |-> << <<c, <<n>>>> >>, pairs |-> <<>>, values |-> <<>>] :
        c \in {<<1, 2, 3, 4, 5, 6>>}, n \in Range(g)}
    \cup {[type |-> "SPC", sid |-> 1, components |-> <<>>, pairs |-> << <<1, n>> >>, values |-> <<d>>] :
        n \in Range(g), d \in Enforced}

Elements(g) ==
    {[type |-> "CROD", nodes |-> <<ab[1], ab[2]>>, comp |-> 1, k |-> k] :
        ab \in {x \in Range(g) \X Range(g) : x[1] # x[2]}, k \in Stiffnesses}
    \cup {[type |-> "CELAS2", nodes |-> <<a>>, comp |-> 1, k |-> k] :
        a \in Range(g), k \in Stiffnesses}

LoadRecords(g) ==
    {[type |-> "FORCE", node_id |-> <<n>>, mag |-> <<1>>, xyz |-> <<v>>] :
        n \in Range(g), v \in {<<f, 0, 0>> : f \in Forces}}

CaseModels ==
    UNION {
        {[node_id |-> g, ps |-> p, spoint |-> <<>>, spcs |-> c, elems |-> e,
          loads |-> l, mpcs |-> <<>>, case_spc |-> 0, case_mpc |-> 0,
          autospc |-> "absent"] :
            p \in [1..Len(g) -> CasePs], c \in Opt(SpcRecords(g)),
            e \in Opt(Elements(g)), l \in Opt(LoadRecords(g))} :
        g \in CaseGridLists}

Init ==
    /\ model \in CaseModels
    /\ pc = "build_nid_component_to_id"
    /\ InitSolver

Next ==
    \/ BuildIndex
    \/ ApplySPCs
    \/ ApplyMPCs
    \/ GetMgg
    \/ AssembleStiffness
    \/ AssembleForces
    \/ BuildDofSets
    \/ SolveSol101
    \/ SolveDirect
    \/ SolveRecover
    \/ Scatter

Spec == Init /\ [][Next]_vars

-----------------------------------------------------------------------------
(* Claims about the DOF indexer, checked under SpecIndex. *)

Built == pc = "apply_SPCs"

GridPairs(m) == {<<m.node_id[k], c>> : k \in 1..Len(m.node_id), c \in 1..6}
ScalarPairs(m) == {<<m.spoint[k], 1>> : k \in 1..Len(m.spoint)}
ExpectedN(m) == 6 * Len(m.node_id) + Len(m.spoint)

\* C1: for every model with at least one point the indexer returns
\* N = 6 * n_grid + n_scalar and a map whose keys are exactly the (grid, 1..6)
\* and (scalar, 1) pairs and whose values are pairwise distinct and cover
\* [0, N) with no gap; only the model with no point at all is refused.
C1_IndexIsBijection ==
    pc # "build_nid_component_to_id" =>
        /\ (ExpectedN(model) > 0) <=> Built
        /\ Built =>
            /\ ndofs = ExpectedN(model)
            /\ DOMAIN nidComponentToID = GridPairs(model) \cup ScalarPairs(model)
            /\ \A a, b \in DOMAIN nidComponentToID :
                   a # b => nidComponentToID[a] # nidComponentToID[b]
            /\ {nidComponentToID[a] : a \in DOMAIN nidComponentToID} = 0..(ndofs - 1)

C1_Witness ==
    /\ Built
    /\ model.node_id = <<3, 1>>
    /\ model.spoint = <<2>>
    /\ ndofs = 13

GridSlotsInOrder ==
    \A k \in 1..Len(model.node_id) : \A c \in 1..6 :
        nidComponentToID[<<model.node_id[k], c>>] = 6 * (k - 1) + (c - 1)

\* C2 as claimed: grid k (from 0) has component c at 6k + (c - 1), and the
\* scalar points follow the grids in their insertion order.
C2_ScalarsInInsertionOrder ==
    Built =>
        /\ GridSlotsInOrder
        /\ \A j \in 1..Len(model.spoint) :
               nidComponentToID[<<model.spoint[j], 1>>] = 6 * Len(model.node_id) + (j - 1)

\* C2 as amended: grid k (from 0) has component c at 6k + (c - 1), and the
\* scalar points follow the grids in ascending order of their identifiers,
\* whatever order they were inserted in.
C2_ScalarsInAscendingIdOrder ==
    Built =>
        /\ GridSlotsInOrder
        /\ \A s \in Range(model.spoint) :
               nidComponentToID[<<s, 1>>] =
                   6 * Len(model.node_id) + Cardinality({t \in Range(model.spoint) : t < s})

C2_Witness ==
    /\ Built
    /\ model.node_id = <<2>>
    /\ model.spoint = <<3, 1>>
    /\ nidComponentToID[<<1, 1>>] = 6
    /\ nidComponentToID[<<3, 1>>] = 7

\* the components a packed PS value was written from
CompsOf(ps) == Range(CHOOSE c \in PsCompLists : PackPS(c) = ps)

RECURSIVE CountPS(_, _)
CountPS(m, k) ==
    IF k > Len(m.ps) THEN 0 ELSE Cardinality(CompsOf(m.ps[k])) + CountPS(m, k + 1)

\* C3: the indexer adds to the sg set exactly the indices index(nid, c) of
\* the components c listed in the PS field of each grid point, each with the
\* value 0.0 and each inside that grid point's six slots; a grid point with a
\* blank PS field adds nothing.
C3_PsFeedsSg ==
    Built =>
        /\ Len(iUsg) = CountPS(model, 1)
        /\ Len(Usg) = Len(iUsg)
        /\ \A k \in 1..Len(Usg) : Usg[k] = Zero
        /\ \A k \in 1..Len(model.node_id) : \A c \in 1..6 :
               (c \in CompsOf(model.ps[k]))
                   <=> (nidComponentToID[<<model.node_id[k], c>>] \in Range(iUsg))
        /\ \A x \in Range(iUsg) : \E k \in 1..Len(model.node_id) :
               /\ 6 * (k - 1) <= x
               /\ x < 6 * k
               /\ model.ps[k] # -1

C3_Witness ==
    /\ Built
    /\ model.node_id = <<2, 1>>
    /\ model.ps = <<-1, 246>>
    /\ Range(iUsg) = {7, 9, 11}


-----------------------------------------------------------------------------
(* Claims about the static run, checked under Spec. *)

\* C4: the scatter of run_sol_101 writes every index of [0, N) exactly once.
C4_EveryIndexWrittenOnce ==
    (pc = "done") =>
        /\ Len(U) = ndofs
        /\ \A k \in 1..ndofs : nwrites[k] = 1

\* C16: a DOF index present in two unioned input subsets at once (sg by a
\* PS field, sb by an SPC record) is flagged as an input error, and s never
\* holds the same index twice.
C16_OverlapIsFlagged ==
    (pc = "solve_sol_101") =>
        \A a, b \in 1..Len(iUs) : a # b => iUs[a] # iUs[b]

\* the values the constraint records of the model supply for DOF index i:
\* 0.0 from a PS field and from an SPC1, the enforced value from an SPC
SuppliedValues(i) ==
    {Zero : k \in {k \in 1..Len(model.node_id) :
                      \E c \in CompsOf(model.ps[k]) :
                          nidComponentToID[<<model.node_id[k], c>>] = i}}
    \cup UNION {
        IF model.spcs[r].type = "SPC1"
        THEN {Zero : key \in {key \in Range(SpcKeys(model.spcs[r])) :
                                 nidComponentToID[key] = i}}
        ELSE {<<model.spcs[r].values[a], 1>> :
                 a \in {a \in 1..Len(model.spcs[r].pairs) :
                           nidComponentToID[SpcKeys(model.spcs[r])[a]] = i}} :
        r \in 1..Len(model.spcs)}

\* C5: U read at every index of the s-set gives back the value the
\* constraint records supplied for that DOF, a non-zero enforced value of an
\* SPC record included.
C5_SpcValuesRoundTrip ==
    (pc = "done") =>
        \A k \in 1..Len(iUs) : U[iUs[k] + 1] \in SuppliedValues(iUs[k])

\* the components of grid point nid the model constrains, by PS or by record
ConstrainedComps(nid) ==
    {c \in 1..6 :
        \/ \E k \in 1..Len(model.node_id) :
               model.node_id[k] = nid /\ c \in CompsOf(model.ps[k])
        \/ \E r \in 1..Len(model.spcs) : <<nid, c>> \in Range(SpcKeys(model.spcs[r]))}

\* the two-grid rod: one rod of stiffness k between the axial DOFs of the
\* grid points fixed and loaded, fixed held to zero in all six components,
\* loaded unconstrained and carrying the axial force F
RodCase(fixed, loaded, k, F) ==
    /\ Range(model.node_id) = {fixed, loaded}
    /\ fixed # loaded
    /\ Len(model.elems) = 1
    /\ model.elems[1].type = "CROD"
    /\ Range(model.elems[1].nodes) = {fixed, loaded}
    /\ model.elems[1].k = k
    /\ ConstrainedComps(fixed) = 1..6
    /\ ConstrainedComps(loaded) = {}
    /\ \A r \in 1..Len(model.spcs) : \A a \in 1..Len(model.spcs[r].values) :
           model.spcs[r].values[a] = 0
    /\ model.loads = <<[type |-> "FORCE", node_id |-> <<loaded>>, mag |-> <<1>>,
                        xyz |-> << <<F, 0, 0>> >>]>>

\* C10: the two-grid rod run ends with U[loaded, 1] = F / k and every other
\* entry of U equal to 0.
C10_TwoGridRod ==
    \A fixed, loaded \in {1, 2} : \A k \in Stiffnesses : \A F \in Forces :
        (RodCase(fixed, loaded, k, F) /\ pc \in {"done", "raised"}) =>
            /\ pc = "done"
            /\ Len(U) = 12
            /\ \A key \in DOMAIN nidComponentToID :
                   U[nidComponentToID[key] + 1] =
                       IF key = <<loaded, 1>> THEN Rat(F, k) ELSE Zero

C10_Witness ==
    /\ pc = "done"
    /\ RodCase(1, 2, 2, 1)
    /\ model.node_id = <<1, 2>>
    /\ nsolve = 2
    /\ U[7] = <<1, 2>>

-----------------------------------------------------------------------------
(* Assembly alone: a model of two grid points whose elements are element
   contributions (local stiffness K, local mass M, global index list dofs). *)

\* most elements of an assembly model
MaxElem == 2

\* local matrices: symmetric with zero entries, symmetric, not symmetric
LocalKs ==
    {<< <<0, 1>>, <<1, 0>> >>, << <<1, -1>>, <<-1, 1>> >>, << <<1, 2>>, <<0, 1>> >>}

LocalMs ==
    {<< <<2, 1>>, <<1, 2>> >>, << <<0, 1>>, <<0, 0>> >>}

\* index lists: distinct, repeated, across the two grid points
DofLists == {<<0, 1>>, <<0, 0>>, <<1, 7>>}

Contribs ==
    {[type |-> "CONTRIB", K |-> K, M |-> M, dofs |-> d] :
        K \in LocalKs, M \in LocalMs, d \in DofLists}
    \cup {[type |-> "CONM1", K |-> <<>>, M |-> <<>>, dofs |-> <<>>]}

AssembleModels ==
    {[node_id |-> <<1, 2>>, ps |-> <<-1, -1>>, spoint |-> <<>>, elems |-> e] @@ NoCase :
        e \in UNION {[1..n -> Contribs] : n \in 0..MaxElem}}

InitAssemble ==
    /\ model \in AssembleModels
    /\ pc = "build_nid_component_to_id"
    /\ InitSolver

NextAssemble ==
    \/ BuildIndex
    \/ ApplySPCs
    \/ ApplyMPCs
    \/ GetMgg
    \/ AssembleStiffness

SpecAssemble == InitAssemble /\ [][NextAssemble]_vars

IsSymmetric(A) == \A a, b \in 1..Len(A) : A[a][b] = A[b][a]

\* the sum of K[i][j] over the pairs (i, j) of P with dofs[i] = r and dofs[j] = c
RECURSIVE PairSum(_, _, _, _, _)
PairSum(K, dofs, r, c, P) ==
    IF P = {} THEN 0
    ELSE LET p == CHOOSE q \in P : TRUE
         IN  (IF dofs[p[1]] = r /\ dofs[p[2]] = c THEN K[p[1]][p[2]] ELSE 0)
             + PairSum(K, dofs, r, c, P \ {p})

\* the sum over the elements a.. of the model of their contributions to (r, c)
RECURSIVE StiffnessSum(_, _, _, _)
StiffnessSum(m, a, r, c) ==
    IF a > Len(m.elems) THEN 0
    ELSE (IF HasStiffnessLoop(m.elems[a])
          THEN LET e == get_stiffness_matrix(m.elems[a], index0s(m))
               IN  PairSum(e.K, e.dofs, r, c, (1..Len(e.dofs)) \X (1..Len(e.dofs)))
          ELSE 0)
         + StiffnessSum(m, a + 1, r, c)

StiffnessAssembled == pc = "assemble_forces"

\* C11: after assembly from the all-zero matrix, Kgg[r, c] is the sum over
\* all elements and all pairs (i, j) with dofs[i] = r and dofs[j] = c of
\* K[i, j], zero entries included: skipping them changes nothing.
C11_KggIsSumOfContributions ==
    StiffnessAssembled =>
        /\ Len(Kgg) = ndofs
        /\ \A r, c \in 0..(ndofs - 1) : Kgg[r + 1][c + 1] = StiffnessSum(model, 1, r, c)

\* two contributions meet on entry (0, 1); one of them has exact zeros
C11_Witness ==
    /\ StiffnessAssembled
    /\ Len(model.elems) = 2
    /\ model.elems[1].K = << <<0, 1>>, <<1, 0>> >> /\ model.elems[1].dofs = <<0, 1>>
    /\ model.elems[2].K = << <<1, -1>>, <<-1, 1>> >> /\ model.elems[2].dofs = <<0, 0>>
    /\ Kgg[1][2] = 1 /\ Kgg[1][1] = 0 /\ Kgg[2][2] = 0

MassAssembled == pc \in {"assemble_global_stiffness_matrix", "assemble_forces"}

\* C12: Kgg and Mgg are symmetric once assembly has finished, for any
\* sequence of contributions whose local matrices are symmetric, repeated
\* indices in the index lists included.
C12_AssembledMatricesAreSymmetric ==
    /\ (StiffnessAssembled /\ \A a \in 1..Len(model.elems) : IsSymmetric(model.elems[a].K))
           => IsSymmetric(Kgg)
    /\ (MassAssembled /\ \A a \in 1..Len(model.elems) : IsSymmetric(model.elems[a].M))
           => IsSymmetric(Mgg)

C12_Witness ==
    /\ StiffnessAssembled
    /\ Len(model.elems) = 2
    /\ \A a \in 1..2 : IsSymmetric(model.elems[a].K) /\ IsSymmetric(model.elems[a].M)
    /\ model.elems[1].dofs = <<0, 0>>
    /\ model.elems[2].dofs = <<1, 7>>
    /\ Kgg[2][8] # 0 /\ Kgg[8][2] = Kgg[2][8]
    /\ Mgg[2][8] # 0 /\ Mgg[8][2] = Mgg[2][8]
    /\ Mgg[1][1] = 6

-----------------------------------------------------------------------------
(* Load assembly alone: two grid points and the loads of the resolved case. *)

\* most load records of a resolved load case
MaxLoad == 2

LoadTypes == {"FORCE", "MOMENT"}
Magnitudes == {1, 2}
Directions == {<<1, 0, 0>>, <<0, 1, -1>>}

\* records of one row, a record of two rows on the same grid point, and a
\* record of a type assemble_forces does not support
ForceRecords ==
    {[type |-> t, node_id |-> <<n>>, mag |-> <<g>>, xyz |-> <<v>>] :
        t \in LoadTypes, n \in {1, 2}, g \in Magnitudes, v \in Directions}
    \cup {[type |-> "FORCE", node_id |-> <<1, 1>>, mag |-> <<1, 2>>,
           xyz |-> << <<1, 0, 0>>, <<1, 1, 0>> >>]}
    \cup {[type |-> "GRAV", node_id |-> <<>>, mag |-> <<>>, xyz |-> <<>>]}

ForceModels ==
    {[node_id |-> <<1, 2>>, ps |-> <<-1, -1>>, spoint |-> <<>>, loads |-> l] @@ NoCase :
        l \in UNION {[1..n -> ForceRecords] : n \in 0..MaxLoad}}

InitForces ==
    /\ model \in ForceModels
    /\ pc = "build_nid_component_to_id"
    /\ InitSolver

NextForces ==
    \/ BuildIndex
    \/ ApplySPCs
    \/ ApplyMPCs
    \/ GetMgg
    \/ AssembleStiffness
    \/ AssembleForces

SpecForces == InitForces /\ [][NextForces]_vars

\* what row i of a load record puts on DOF index d: its FORCE components on
\* components 1..3 of the grid point, its MOMENT components on 4..6
RowOn(load, i, d) ==
    LET ni == IF load.type = "FORCE" THEN 0 ELSE 3
        on(c) == IF nidComponentToID[<<load.node_id[i], ni + c>>] = d
                 THEN load.mag[i] * load.xyz[i][c] ELSE 0
    IN  on(1) + on(2) + on(3)

RECURSIVE RowsOn(_, _, _)
RowsOn(load, i, d) ==
    IF i > Len(load.node_id) THEN 0 ELSE RowOn(load, i, d) + RowsOn(load, i + 1, d)

RECURSIVE LoadsOn(_, _, _)
LoadsOn(loads, a, d) ==
    IF a > Len(loads) THEN 0 ELSE RowsOn(loads[a], 1, d) + LoadsOn(loads, a + 1, d)

ForcesAssembled == pc = "build_dof_sets"

\* C13: after assemble_forces, Fg[d] is the sum over the FORCE records of
\* the components 1..3 mapped to d and over the MOMENT records of the
\* components 4..6 mapped to d; loads on one DOF accumulate and the skipped
\* zero components change nothing.
C13_FgIsSumOfLoads ==
    ForcesAssembled =>
        /\ Len(Fg) = ndofs
        /\ \A d \in 0..(ndofs - 1) : Fg[d + 1] = LoadsOn(model.loads, 1, d)

\* two records load DOF (1, 2) and a MOMENT loads (1, 5)
C13_Witness ==
    /\ ForcesAssembled
    /\ Len(model.loads) = 2
    /\ model.loads[1].type = "FORCE" /\ model.loads[1].node_id = <<1>>
    /\ model.loads[1].xyz = << <<0, 1, -1>> >> /\ model.loads[1].mag = <<2>>
    /\ model.loads[2].node_id = <<1, 1>>
    /\ Fg[2] = 4 /\ Fg[3] = -2 /\ Fg[1] = 3

\* the resolved load case holds a load that is neither a FORCE nor a MOMENT
HoldsUnsupportedLoad ==
    \E a \in 1..Len(model.loads) : model.loads[a].type \notin {"FORCE", "MOMENT"}

\* C23: whenever the resolved load case holds a load whose type is neither
\* FORCE nor MOMENT, assemble_forces fails with NotImplementedError (raised
\* with the type of the load); no load vector is returned and the case does
\* not go on to build_dof_sets and the solve.
C23_UnsupportedLoadTypeFails ==
    [][(pc = "assemble_forces" /\ HoldsUnsupportedLoad) =>
           (pc' = "raised" /\ err' = "NotImplementedError" /\ Fg' = Fg)]_vars

\* a FORCE that assembles, followed by an unsupported load: the run has
\* stopped in assemble_forces with no load vector
C23_Witness ==
    /\ pc = "raised" /\ err = "NotImplementedError"
    /\ Len(model.loads) = 2
    /\ model.loads[1].type = "FORCE" /\ model.loads[2].type = "GRAV"
    /\ Fg = <<>> /\ Len(Kgg) = ndofs

-----------------------------------------------------------------------------
(* The DOF set algebra alone: build_dof_sets called twice on base sets that
   other analysis types may have populated. *)

\* most base sets populated at once
MaxPopulated == 3

\* the base sets, numbered
SetNumbers == 1..13

\* a populated base set number p holds the indices p and 0, in that order
SetIndices(p, on) == IF p \in on THEN <<p, 0>> ELSE <<>>
SetValues(p, on) == IF p \in on THEN << <<p, 1>>, <<-p, 1>> >> ELSE <<>>

\* the base sets of self other than sb, sg and mp, those of on populated
BaseOf(on) ==
    [iUmr |-> SetIndices(4, on), jUmr |-> SetIndices(4, on), Umr |-> SetValues(4, on),
     iUc |-> SetIndices(5, on), Uc |-> SetValues(5, on),
     iUlm |-> SetIndices(6, on), Ulm |-> SetValues(6, on),
     iUr |-> SetIndices(7, on), Ur |-> SetValues(7, on),
     iUq |-> SetIndices(8, on), Uq |-> SetValues(8, on),
     iUo |-> SetIndices(9, on), Uo |-> SetValues(9, on),
     iUe |-> SetIndices(10, on), Ue |-> SetValues(10, on),
     iUk |-> SetIndices(11, on), Uk |-> SetValues(11, on),
     iUj |-> SetIndices(12, on), Uj |-> SetValues(12, on),
     iUsa |-> SetIndices(13, on), Usa |-> SetValues(13, on)]

DofSetsGrid == [node_id |-> <<1, 2>>, ps |-> <<-1, -1>>, spoint |-> <<>>] @@ NoCase

InitDofSets ==
    /\ model = DofSetsGrid
    /\ pc = "first_call"
    /\ err = ""
    /\ nidComponentToID = build_nid_component_to_id(DofSetsGrid, <<>>, <<>>).map
    /\ ndofs = build_nid_component_to_id(DofSetsGrid, <<>>, <<>>).i
    /\ mp_index = 2
    /\ \E on \in {x \in SUBSET SetNumbers : Cardinality(x) <= MaxPopulated} :
           /\ iUsb = SetIndices(1, on) /\ Usb = SetValues(1, on)
           /\ iUsg = SetIndices(2, on) /\ Usg = SetValues(2, on)
           /\ iUmp = SetIndices(3, on) /\ jUmp = SetIndices(3, on) /\ Ump = SetValues(3, on)
           /\ base = BaseOf(on)
    /\ iUs = <<>> /\ Us = <<>>
    /\ iUm = <<>> /\ jUm = <<>> /\ Um = <<>>
    /\ derived = NoDerived
    /\ Kgg = <<>> /\ Fg = <<>> /\ Mgg = <<>>
    /\ Kaa = <<>> /\ Fa = <<>> /\ dofs2 = <<>>
    /\ failed = <<>> /\ nsolve = 0 /\ Ua = <<>>
    /\ U = <<>> /\ nwrites = <<>>
    /\ grid_point_weight = NoWeight /\ case_result_flags = NoFlags

BuildDofSetsFirst == build_dof_sets("first_call", "second_call")

BuildDofSetsSecond == build_dof_sets("second_call", "called_twice")

NextDofSets == BuildDofSetsFirst \/ BuildDofSetsSecond

SpecDofSets == InitDofSets /\ [][NextDofSets]_vars

DofSetsBuilt == pc \in {"second_call", "called_twice"}

C15_BuildDofSetsIsIdempotentAndPure ==
    [][/\ (pc \in {"first_call", "second_call"}) =>
              /\ base' = base
              /\ sbVars' = sbVars /\ sgVars' = sgVars /\ mpVars' = mpVars
       /\ (pc = "second_call") =>
              /\ derived' = derived
              /\ sVars' = sVars /\ mVars' = mVars]_vars

\* the second call has run on populated sb, sg and mr
C15_Witness ==
    /\ pc = "called_twice"
    /\ iUsb = <<1, 0>> /\ iUsg = <<2, 0>> /\ base.iUmr = <<4, 0>>
    /\ iUs = <<1, 0, 2, 0>>
    /\ derived.iUg = <<1, 0, 2, 0, 4, 0>>

-----------------------------------------------------------------------------
(* The SPC resolver alone: two grid points, the SPC records of the model with
   their set ids, and the SPC parameter of the case. *)

\* most SPC records of a model
MaxSpc == 2

SpcSetIds == {1, 2}

\* SPC1 records: two components of one grid point, one component of two grid
\* points, the same grid point twice
Spc1Components ==
    {<< <<<<1, 2>>, <<1>>>> >>, << <<<<1>>, <<1, 2>>>> >>, << <<<<2>>, <<1, 1>>>> >>}

\* SPC records as (component, grid point) pairs: one pair, two pairs, the
\* same pair twice
SpcPairs == {<< <<1, 1>> >>, << <<2, 1>>, <<1, 2>> >>, << <<1, 1>>, <<1, 1>> >>}

ResolverRecords ==
    {[type |-> "SPC1", sid |-> i, components |-> c, pairs |-> <<>>, values |-> <<>>] :
        i \in SpcSetIds, c \in Spc1Components}
    \cup {[type |-> "SPC", sid |-> i, components |-> <<>>, pairs |-> q,
           values |-> [a \in 1..Len(q) |-> 0]] :
        i \in SpcSetIds, q \in SpcPairs}
    \cup {[type |-> "SPCADD", sid |-> 3, components |-> <<>>, pairs |-> <<>>, values |-> <<>>]}

\* the case names no SPC set (0) or a set that has records
ResolverModels ==
    UNION {
        {[node_id |-> <<1, 2>>, ps |-> <<-1, -1>>, spoint |-> <<>>, spcs |-> c,
          case_spc |-> i] @@ NoCase :
            i \in {0} \cup {c[r].sid : r \in {r \in 1..Len(c) : c[r].type # "SPCADD"}}} :
        c \in UNION {[1..n -> ResolverRecords] : n \in 0..MaxSpc}}

InitResolver ==
    /\ model \in ResolverModels
    /\ pc = "build_nid_component_to_id"
    /\ InitSolver

NextResolver == BuildIndex \/ ApplySPCs

SpecResolver == InitResolver /\ [][NextResolver]_vars

\* the records apply_SPCs is to apply: those of the set of the case, or of
\* every set, by ascending set id, when the case names none
RECURSIVE RecordsToApply(_, _)
RecordsToApply(m, i) ==
    IF i > 3 THEN <<>>
    ELSE SelectSeq(m.spcs, LAMBDA r : r.sid = i /\ r.type \in {"SPC", "SPC1"}
                                       /\ m.case_spc \in {0, i})
         \o RecordsToApply(m, i + 1)

\* the DOF indices the records ask for, in order, repeats included
RECURSIVE AskedIndices(_, _)
AskedIndices(recs, a) ==
    IF a > Len(recs) THEN <<>>
    ELSE [k \in 1..Len(SpcKeys(recs[a])) |-> nidComponentToID[SpcKeys(recs[a])[k]]]
         \o AskedIndices(recs, a + 1)

\* a list without the later occurrences of its entries
RECURSIVE FirstOccurrences(_)
FirstOccurrences(q) ==
    IF q = <<>> THEN <<>>
    ELSE LET r == FirstOccurrences(SubSeq(q, 1, Len(q) - 1))
         IN  IF q[Len(q)] \in Range(r) THEN r ELSE Append(r, q[Len(q)])

SpcsApplied == pc = "apply_MPCs"

\* C17: after apply_SPCs over SPC and SPC1 records, sb holds every
\* constrained DOF index once, in order of first occurrence, with as many
\* values; a repeated DOF changes nothing and raises no error.
C17_SbHoldsFirstOccurrences ==
    SpcsApplied =>
        /\ iUsb = FirstOccurrences(AskedIndices(RecordsToApply(model, 1), 1))
        /\ Len(Usb) = Len(iUsb)
        /\ \A a, b \in 1..Len(iUsb) : a # b => iUsb[a] # iUsb[b]
        /\ err = ""

\* an SPC1 on (1, 1), (1, 2) and then an SPC that repeats (1, 1) twice
C17_Witness ==
    /\ SpcsApplied
    /\ model.case_spc = 1
    /\ Len(model.spcs) = 2
    /\ model.spcs[1].sid = 1 /\ model.spcs[1].components = << <<<<1, 2>>, <<1>>>> >>
    /\ model.spcs[2].sid = 1 /\ model.spcs[2].pairs = << <<1, 1>>, <<1, 1>> >>
    /\ iUsb = <<0, 1>>
    /\ Usb = <<Zero, Zero>>

\* C18: with no SPC parameter in the case, apply_SPCs applies the records of
\* every SPC set id of the model (SPCADD excluded); with an SPC parameter it
\* applies the records of that one set only.
C18_AppliedSetsFollowTheCase ==
    SpcsApplied =>
        Range(iUsb) =
            {nidComponentToID[key] :
                key \in UNION {Range(SpcKeys(model.spcs[r])) :
                    r \in {r \in 1..Len(model.spcs) :
                              /\ model.spcs[r].type \in {"SPC", "SPC1"}
                              /\ model.case_spc = 0 \/ model.spcs[r].sid = model.case_spc}}}

\* the case names set 2 of two sets: only (1, 2) and (2, 1) are constrained
C18_Witness ==
    /\ SpcsApplied
    /\ model.case_spc = 2
    /\ Len(model.spcs) = 2
    /\ model.spcs[1].sid = 1 /\ model.spcs[1].pairs = << <<1, 1>> >>
    /\ model.spcs[2].sid = 2 /\ model.spcs[2].pairs = << <<2, 1>>, <<1, 2>> >>
    /\ iUsb = <<1, 6>>

-----------------------------------------------------------------------------
(* Cases with multi-point constraints, run end to end. *)

\* most equations of an MPC record
MaxMpcEq == 2

\* equations as lists of terms (G, C, A), the dependent DOF first
MpcEqs ==
    {<< <<2, 1, 1>>, <<2, 2, -1>> >>, << <<2, 3, 2>>, <<2, 1, -1>> >>,
     << <<1, 1, 1>>, <<2, 1, -1>> >>}

MpcRecords ==
    {[type |-> "MPC", sid |-> 1, constraints |-> c] :
        c \in UNION {[1..n -> MpcEqs] : n \in 1..MaxMpcEq}}

\* no MPC record, or one record that the case names or not
MpcChoices ==
    {[mpcs |-> <<>>, case_mpc |-> 0]}
    \cup {[mpcs |-> <<r>>, case_mpc |-> i] : r \in MpcRecords, i \in {0, 1}}

MpcGrids ==
    {[node_id |-> <<2>>, ps |-> <<-1>>],
     [node_id |-> <<1, 2>>, ps |-> <<-1, -1>>],
     [node_id |-> <<1, 2>>, ps |-> <<123456, -1>>]}

MpcModels ==
    {[node_id |-> g.node_id, ps |-> g.ps, spoint |-> sp, spcs |-> <<>>,
      mpcs |-> c.mpcs, case_mpc |-> c.case_mpc, case_spc |-> 0, elems |-> e,
      loads |-> l, autospc |-> "absent"] :
        g \in MpcGrids, sp \in {<<>>, <<5, 6>>}, c \in MpcChoices,
        e \in Opt({[type |-> "CELAS2", nodes |-> <<2>>, comp |-> 1, k |-> 1]}),
        l \in Opt({[type |-> "FORCE", node_id |-> <<2>>, mag |-> <<1>>,
                    xyz |-> << <<1, 0, 0>> >>]})}

InitMpc ==
    /\ model \in MpcModels
    /\ pc = "build_nid_component_to_id"
    /\ InitSolver

SpecMpc == InitMpc /\ [][Next]_vars

\* the index of the dependent (first-listed) DOF of every term, in the
\* order of the equations of the MPC set of the case
RECURSIVE DependentTargets(_, _)
DependentTargets(eqs, c) ==
    IF c > Len(eqs) THEN <<>>
    ELSE [t \in 1..Len(eqs[c]) |-> nidComponentToID[<<eqs[c][1][1], eqs[c][1][2]>>]]
         \o DependentTargets(eqs, c + 1)

RECURSIVE EquationsOf(_, _)
EquationsOf(mpcs, a) ==
    IF a > Len(mpcs) THEN <<>> ELSE mpcs[a].constraints \o EquationsOf(mpcs, a + 1)

MpcsApplied == pc = "get_Mgg" /\ model.case_mpc # 0

\* C19: every term (G, C, A) of an active MPC equation becomes an entry
\* whose target index is the DOF index of the equation's first-listed DOF,
\* whose column is the DOF index of (G, C) and whose coefficient is A, all
\* indices taken from the index map and inside [0, N).
C19_MpcTargetsAreDependentDofs ==
    MpcsApplied =>
        /\ iUmp = DependentTargets(EquationsOf(MPC(model, model.case_mpc), 1), 1)
        /\ \A k \in 1..Len(iUmp) : iUmp[k] \in 0..(ndofs - 1)
        /\ \A k \in 1..Len(jUmp) : jUmp[k] \in 0..(ndofs - 1)

SolveReturned == pc \in {"scatter", "done"}

\* C20: after solve_sol_101 has returned, every entry of Kgg and of Fg is
\* what assembly left, active MPCs included.
C20_SolveLeavesKggAndFg ==
    SolveReturned =>
        /\ Kgg = assemble_global_stiffness_matrix(model, 1, ZeroMatrix(ndofs))
        /\ Fg = assemble_forces(model.loads, 1, nidComponentToID,
                                [raised |-> "", Fg |-> [k \in 1..ndofs |-> 0]]).Fg


-----------------------------------------------------------------------------
(* run_solver, run_case and get_case_parameter: the loop over the analysis
   cases of one Solver.  The case read by the steps of a run is held in the
   fields case_spc, case_mpc, requests and temperature of model; the cases
   still to run are model.pending. *)

ResultNames == <<"DISPLACEMENT", "STRESS", "STRAIN", "FORCE">>

\* get_case_parameter for one name; v is the value of the case parameter, or
\* "absent"; st = [raised, flags]
get_case_parameter(st, v, param_name) ==
    IF st.raised # "" THEN st
    ELSE IF v = "absent"
    THEN [st EXCEPT !.flags = DictSet(@, param_name, <<FALSE, FALSE>>)]
    ELSE IF v = "ALL"
    THEN [st EXCEPT !.flags = DictSet(@, param_name, <<TRUE, TRUE>>)]
    ELSE IF v = "NONE"
    THEN [st EXCEPT !.flags = DictSet(@, param_name, <<FALSE, TRUE>>)]
    ELSE [st EXCEPT !.raised = "NotImplementedError"]

\* the four calls of run_case, in order
RECURSIVE GetCaseParameters(_, _, _)
GetCaseParameters(st, requests, k) ==
    IF k > Len(ResultNames) THEN st
    ELSE GetCaseParameters(get_case_parameter(st, requests[ResultNames[k]], ResultNames[k]),
                           requests, k + 1)

\* variant of ResultSelected that lets every case through
ResultSelectedAlways(flags) == TRUE

\* is_displacement or is_stress or is_strain or is_force
ResultSelected(flags) ==
    \E k \in 1..Len(ResultNames) : flags[ResultNames[k]][1]

\* variant of SolKnown that knows every solution number
SolKnownAlways(sol) == TRUE

\* 'model.sol in sols'
SolKnown(sol) == sol \in {101, 103}

\* run_case up to the call sols[model.sol](model, case); run_sol_101 reaches
\* setup_sol_101 without touching the lists of the Solver
RunCase ==
    /\ pc = "run_case"
    /\ IF ~SolKnown(model.sol)
       THEN pc' = "raised" /\ err' = "NotImplementedError" /\ UNCHANGED caseVars
       ELSE LET r == GetCaseParameters([raised |-> "", flags |-> case_result_flags],
                                       model.requests, 1)
            IN  /\ case_result_flags' = r.flags
                /\ IF r.raised # ""
                   THEN pc' = "raised" /\ err' = r.raised
                   ELSE IF ~ResultSelected(r.flags)
                   THEN pc' = "raised" /\ err' = "RuntimeError"
                   ELSE /\ err' = ""
                        /\ pc' = IF model.sol = 101 THEN "build_nid_component_to_id"
                                 ELSE "run_sol_103"
    /\ UNCHANGED <<model, indexVars, sgVars, sbVars, sVars, ggVars, argVars,
                   solveVars, outVars, massVars, mpVars, mVars, setVars, gpwgVars>>

\* one turn of 'for case in analysisCases' of run_solver: the next case is
\* taken when the run of the case before it has returned
RunSolver ==
    /\ pc \in {"run_solver", "done"}
    /\ IF model.pending = <<>>
       THEN pc' = "closed" /\ err' = "" /\ model' = model
       ELSE LET case == Head(model.pending)
            IN  /\ model' = [model EXCEPT !.pending = Tail(@),
                                          !.case_spc = case.case_spc,
                                          !.case_mpc = case.case_mpc,
                                          !.requests = case.requests,
                                          !.temperature = case.temperature]
                /\ IF case.temperature
                   THEN pc' = "raised" /\ err' = "NotImplementedError"
                   ELSE pc' = "run_case" /\ err' = ""
    /\ UNCHANGED <<indexVars, sgVars, sbVars, sVars, ggVars, argVars,
                   solveVars, outVars, massVars, mpVars, mVars, setVars, gpwgVars,
                   caseVars>>

\* run_sol_103 up to its first call: the argument ndofs of
\* self.get_Mgg(model, ndofs, force_calcs=True) is a name run_sol_103 never
\* binds, so the call is not made
RunSol103 ==
    /\ pc = "run_sol_103"
    /\ pc' = "raised"
    /\ err' = "NameError"
    /\ UNCHANGED <<model, indexVars, sgVars, sbVars, sVars, ggVars, argVars,
                   solveVars, outVars, massVars, mpVars, mVars, setVars, gpwgVars,
                   caseVars>>

-----------------------------------------------------------------------------
(* Several cases run by one Solver. *)

\* most cases of one run of run_solver
MaxCase == 2

Req(d, s, e, f) ==
    [x \in Range(ResultNames) |->
        IF x = "DISPLACEMENT" THEN d ELSE IF x = "STRESS" THEN s
        ELSE IF x = "STRAIN" THEN e ELSE f]

\* the case before run_solver has taken one
NoRun == [sol |-> 101, requests |-> Req("absent", "absent", "absent", "absent"),
          temperature |-> FALSE, pending |-> <<>>]

\* cases that ask for displacements, with the SPC and MPC sets they name
StaticCases ==
    {[case_spc |-> c[1], case_mpc |-> c[2], temperature |-> FALSE,
      requests |-> Req("ALL", "absent", "absent", "absent")] :
        c \in {<<0, 0>>, <<1, 0>>, <<2, 0>>, <<1, 1>>}}

\* cases with other output requests ("SET" is a value that is neither ALL
\* nor NONE), and a case with an initial temperature
OtherCases ==
    {[case_spc |-> 0, case_mpc |-> 0, temperature |-> FALSE, requests |-> r] :
        r \in {Req("absent", "absent", "absent", "absent"),
               Req("NONE", "NONE", "NONE", "NONE"),
               Req("NONE", "absent", "absent", "ALL"),
               Req("ALL", "SET", "absent", "absent")}}
    \cup {[case_spc |-> 0, case_mpc |-> 0, temperature |-> TRUE,
           requests |-> Req("ALL", "absent", "absent", "absent")]}

CaseLists == UNION {[1..n -> StaticCases \cup OtherCases] : n \in 1..MaxCase}

\* one grid point with a spring and a load on component 1, two SPC sets and
\* one MPC set
RunBase(p, e, l) ==
    [node_id |-> <<2>>, ps |-> <<p>>, spoint |-> <<>>,
     spcs |-> <<[type |-> "SPC", sid |-> 1, components |-> <<>>,
                 pairs |-> << <<2, 2>> >>, values |-> <<0>>],
                [type |-> "SPC1", sid |-> 2,
                 components |-> << <<<<3, 2>>, <<2>>>> >>, pairs |-> <<>>,
                 values |-> <<>>]>>,
     mpcs |-> <<[type |-> "MPC", sid |-> 1,
                 constraints |-> << << <<2, 4, 1>>, <<2, 5, -1>> >> >>]>>,
     elems |-> e, loads |-> l, case_spc |-> 0, case_mpc |-> 0,
     autospc |-> "absent"]

RunModels ==
    {[RunBase(p, e, l) @@ NoRun EXCEPT !.pending = c] :
        p \in {-1, 3},
        e \in {<<[type |-> "CELAS2", nodes |-> <<2>>, comp |-> 1, k |-> 1]>>},
        l \in Opt({[type |-> "FORCE", node_id |-> <<2>>, mag |-> <<1>>,
                    xyz |-> << <<1, 0, 0>> >>]}),
        c \in CaseLists}
    \cup {[RunBase(-1, <<>>, <<>>) @@ NoRun EXCEPT !.pending = c, !.sol = n] :
            n \in {103, 144}, c \in CaseLists}

InitCases ==
    /\ model \in RunModels
    /\ pc = "run_solver"
    /\ InitSolver

NextCases ==
    \/ RunSolver
    \/ RunCase
    \/ RunSol103
    \/ Next

SpecCases == InitCases /\ [][NextCases]_vars

-----------------------------------------------------------------------------
(* Claims about the run of several cases, checked under SpecCases. *)

\* the index build and the constraint resolution of the current case have
\* returned
ConstraintsResolved == pc = "get_Mgg"

\* what the index build and the resolution of the current case produce when
\* they start from empty lists
OwnLists ==
    LET ix == build_nid_component_to_id(model, <<>>, <<>>)
        sb == SpcSetLoop(model, SpcIds(model), 1, nidComponentToID,
                         [raised |-> "", iUsb |-> <<>>, Usb |-> <<>>])
        m0 == [raised |-> "", iconstraint |-> mp_index,
               iUmp |-> <<>>, jUmp |-> <<>>, Ump |-> <<>>]
        mp == IF model.case_mpc # 0
              THEN apply_MPCs(MPC(model, model.case_mpc), 1, mp_index,
                              nidComponentToID, m0)
              ELSE m0
    IN  [iUsg |-> ix.iUsg, Usg |-> ix.Usg, iUsb |-> sb.iUsb, Usb |-> sb.Usb,
         iUmp |-> mp.iUmp, jUmp |-> mp.jUmp, Ump |-> mp.Ump]

\* C21: when one Solver runs several cases in sequence, the sb, sg and MPC
\* lists of a case hold only what the index build and the constraint
\* resolution of that case produced: nothing of an earlier case remains
C21_ListsHoldOnlyThisCase ==
    ConstraintsResolved =>
        /\ iUsg = OwnLists.iUsg /\ Usg = OwnLists.Usg
        /\ iUsb = OwnLists.iUsb /\ Usb = OwnLists.Usb
        /\ iUmp = OwnLists.iUmp /\ jUmp = OwnLists.jUmp /\ Ump = OwnLists.Ump

\* C25: in the modal case run_sol_103 partitions Kgg and Mgg by the s set,
\* solves the eigenproblem and scatters each mode shape into a full-length
\* vector; the run completes and stores that vector
C25_ModalRunCompletes ==
    [][(pc = "run_sol_103") => (pc' # "raised")]_vars

\* the case asks for a solution sequence run_case knows and for at least one
\* of the four results with the value ALL
CaseIsAccepted ==
    /\ model.sol \in {101, 103}
    /\ \E k \in 1..Len(ResultNames) : model.requests[ResultNames[k]] = "ALL"

\* the exception run_case raises for a case it does not accept
CaseError ==
    IF model.sol \notin {101, 103} THEN "NotImplementedError"
    ELSE IF \E k \in 1..Len(ResultNames) :
                model.requests[ResultNames[k]] \notin {"absent", "ALL", "NONE"}
    THEN "NotImplementedError"
    ELSE "RuntimeError"

\* C28: run_case starts a solution sequence only if model.sol is 101 or 103
\* and at least one of DISPLACEMENT, STRESS, STRAIN, FORCE is requested with
\* ALL; otherwise it raises (NotImplementedError for another sol or for a
\* request value other than ALL and NONE, RuntimeError when no result is
\* selected) before any index, constraint list, matrix or load vector is
\* built for the case.
C28_RunCaseGuardsTheSequence ==
    [][(pc = "run_case") =>
           /\ (pc' \in {"build_nid_component_to_id", "run_sol_103"}) => CaseIsAccepted
           /\ ~CaseIsAccepted =>
                  /\ pc' = "raised"
                  /\ err' = CaseError
                  /\ UNCHANGED <<indexVars, sgVars, sbVars, sVars, ggVars, massVars,
                                 mpVars, mVars, setVars>>]_vars

\* a case whose four requests are NONE has been refused with RuntimeError
\* and nothing has been built
C28_Witness ==
    /\ pc = "raised" /\ err = "RuntimeError"
    /\ model.sol = 101
    /\ model.requests["DISPLACEMENT"] = "NONE"
    /\ case_result_flags["FORCE"] = <<FALSE, TRUE>>
    /\ nidComponentToID = <<>> /\ ndofs = 0 /\ iUsg = <<>> /\ Kgg = <<>>

-----------------------------------------------------------------------------
(* Records that name points the model does not have. *)

\* most load records of a case
MaxRefLoad == 2

\* grid point 2 is in the model, grid point 1 is not
RefNodes == {1, 2}

RefSpcs ==
    {[type |-> "SPC", sid |-> 1, components |-> <<>>, pairs |-> << <<2, n>> >>,
      values |-> <<0>>] : n \in RefNodes}
    \cup {[type |-> "SPC1", sid |-> 1, components |-> << <<<<3>>, <<n>>>> >>,
           pairs |-> <<>>, values |-> <<>>] : n \in RefNodes}

RefMpcs ==
    {[type |-> "MPC", sid |-> 1,
      constraints |-> << << <<2, 4, 1>>, <<n, 5, -1>> >> >>] : n \in RefNodes}

\* loads with a zero and with a non-zero value on their components
RefLoads ==
    {[type |-> t, node_id |-> <<n>>, mag |-> <<g>>, xyz |-> << <<1, 0, 0>> >>] :
        t \in {"FORCE", "MOMENT"}, n \in RefNodes, g \in {0, 1}}

RefModels ==
    {[node_id |-> <<2>>, ps |-> <<-1>>, spoint |-> <<>>, spcs |-> c, mpcs |-> q,
      elems |-> e, loads |-> l, case_spc |-> 0, case_mpc |-> Len(q),
      autospc |-> "absent"] :
        c \in Opt(RefSpcs), q \in Opt(RefMpcs),
        e \in Opt({[type |-> "CELAS2", nodes |-> <<2>>, comp |-> 1, k |-> 1]}),
        l \in UNION {[1..n -> RefLoads] : n \in 0..MaxRefLoad}}

InitRefs ==
    /\ model \in RefModels
    /\ pc = "build_nid_component_to_id"
    /\ InitSolver

SpecRefs == InitRefs /\ [][Next]_vars

\* the (entity id, component) pairs the records of the case name: the keys of
\* the applied SPC records, the terms of the MPC set of the case, and the
\* three components of every row of a FORCE or MOMENT
SpcPairsOf(m) ==
    UNION {UNION {Range(SpcKeys(r)) : r \in Range(SPC(m, i))} : i \in Range(SpcIds(m))}

MpcPairsOf(m) ==
    IF m.case_mpc = 0 THEN {}
    ELSE {<<t[1], t[2]>> :
              t \in UNION {Range(eq) : eq \in Range(EquationsOf(MPC(m, m.case_mpc), 1))}}

LoadPairsOf(m) ==
    UNION {{<<m.loads[a].node_id[i], (IF m.loads[a].type = "FORCE" THEN 0 ELSE 3) + c>> :
                i \in 1..Len(m.loads[a].node_id), c \in 1..3} :
           a \in {a \in 1..Len(m.loads) : m.loads[a].type \in {"FORCE", "MOMENT"}}}

ReferencedPairs(m) == SpcPairsOf(m) \cup MpcPairsOf(m) \cup LoadPairsOf(m)

\* setup_sol_101 has returned: the case goes on to build_dof_sets and the solve
SetupReturned ==
    pc \in {"build_dof_sets", "solve_sol_101", "_solve", "_solve_except", "scatter", "done"}

\* C22: whenever a constraint or load record names a pair that is not in the
\* index map, apply_SPCs, apply_MPCs or assemble_forces fails and the solve
\* step is not reached: the reference is never skipped
C22_UnknownReferencesStopTheCase ==
    SetupReturned => ReferencedPairs(model) \subseteq DOMAIN nidComponentToID

-----------------------------------------------------------------------------
(* Grid points with a coordinate system, handed to the indexer. *)

\* the coordinate systems a grid point may name in its CD field; 0 is the
\* basic one
CdValues == {0, 1, 5}

CdModels ==
    UNION {
        {[node_id |-> g, ps |-> p, cd |-> c, spoint |-> sp] @@ NoCase :
            p \in [1..Len(g) -> CasePs], c \in [1..Len(g) -> CdValues],
            sp \in {<<>>, <<3>>}} :
        g \in CaseGridLists \cup {<<>>}}

InitCd ==
    /\ model \in CdModels
    /\ pc = "build_nid_component_to_id"
    /\ InitSolver

SpecCd == InitCd /\ [][NextIndex]_vars

\* C24: build_nid_component_to_id fails, and returns no index map, whenever
\* a grid point of the model names a coordinate system other than the basic
\* one (id 0)
C24_UnsupportedCdFails ==
    (pc = "apply_SPCs") => \A k \in 1..Len(model.cd) : model.cd[k] = 0

-----------------------------------------------------------------------------
(* make_gpwg(grid_point, Mgg): the grid point weight generator.  The
   matrices are exact: integers for D, Mo, S and the principal blocks,
   rationals <<n, d>> for the center of gravity and the inertia tensor. *)

\* array(A): the rows and their entries evaluated once and stored
array(A) == [r \in 1..Len(A) |-> A[r] \o <<>>] \o <<>>

\* A.T
Transpose(A) == array([c \in 1..Len(A[1]) |-> [r \in 1..Len(A) |-> A[r][c]]])

RECURSIVE DotInt(_, _, _)
DotInt(u, v, k) == IF k > Len(u) THEN 0 ELSE u[k] * v[k] + DotInt(u, v, k + 1)

\* dot(A, B)
MatMul(A, B) ==
    LET BT == Transpose(B)
    IN  array([r \in 1..Len(A) |-> [c \in 1..Len(BT) |-> DotInt(A[r], BT[c], 1)]])

\* triple(A, B) of utils: A.T . B . A
triple(A, B) == MatMul(Transpose(A), MatMul(B, A))

\* eye(3), and the beta() of the basic coordinate system
Identity3 == <<<<1, 0, 0>>, <<0, 1, 0>>, <<0, 0, 1>>>>
beta(cp) == Identity3

\* self.positions[nid] = model.grid.xyz[i]
positions(m) ==
    [nid \in Range(m.node_id) |->
        m.xyz[CHOOSE k \in 1..Len(m.node_id) : m.node_id[k] = nid]]

\* the rows of xyz_cid0: the positions in ascending order of the grid id
xyz_cid0(m) ==
    LET ids == Sorted(Range(m.node_id))
    IN  array([i \in 1..Len(ids) |-> positions(m)[ids[i]]])

\* the origin for grid_point -1 or 0, the position of that grid point otherwise
ref_point(m, grid_point) ==
    IF grid_point \in {-1, 0} THEN <<0, 0, 0>> ELSE positions(m)[grid_point]

\* Tr of one node at r = xyz - ref_point
Tr(r) == <<<<0, r[3], -r[2]>>, <<-r[3], 0, r[1]>>, <<r[2], -r[1], 0>>>>

\* the block d of one node: [[TiT, TiT.Tr], [0, TiT]]
DBlock(TiT, r) ==
    LET TT == MatMul(TiT, Tr(r))
    IN  array([a \in 1..6 |-> IF a <= 3 THEN TiT[a] \o TT[a]
                              ELSE <<0, 0, 0>> \o TiT[a - 3]])

\* D: the blocks of the nodes one under the other, D[j:j+6, :] = d
DMatrix(m, grid_point) ==
    LET x   == xyz_cid0(m)
        ref == ref_point(m, grid_point)
        d   == [i \in 1..Len(x) |->
                   DBlock(Transpose(beta(m.cp[i])), [c \in 1..3 |-> x[i][c] - ref[c]])] \o <<>>
    IN  array([p \in 1..(6 * Len(x)) |-> d[((p - 1) \div 6) + 1][((p - 1) % 6) + 1]])

\* A[r0:r0+3, c0:c0+3] of the 6 x 6 matrix Mo
Block(A, r0, c0) == array([a \in 1..3 |-> [b \in 1..3 |-> A[r0 + a][c0 + b]]])

Perms3 == {p \in [1..3 -> 1..3] : \A a, b \in 1..3 : a # b => p[a] # p[b]}

\* omega, S = eigh(Mt_bar) for a diagonal Mt_bar: the eigenvalues ascending,
\* the columns of S the unit vectors of the axes in that order; the sign of a
\* column and the order inside a repeated eigenvalue are the routine's choice
eigh(A) ==
    {[omega |-> [k \in 1..3 |-> A[p[k]][p[k]]],
      S     |-> [r \in 1..3 |-> [k \in 1..3 |-> IF r = p[k] THEN sg[k] ELSE 0]]] :
        p  \in {q \in Perms3 : \A k \in 1..2 : A[q[k]][q[k]] <= A[q[k + 1]][q[k + 1]]},
        sg \in [1..3 -> {-1, 1}]}

\* float division: n / d, with inf or nan kept as a zero denominator
Quot(n, d) ==
    IF d = 0 THEN <<IF n > 0 THEN 1 ELSE IF n < 0 THEN -1 ELSE 0, 0>> ELSE Rat(n, d)

IsFinite(a) == a[2] # 0
NaN == <<0, 0>>

\* a * b and a - b; an operand that is not finite gives nan
RatMul(a, b) ==
    IF IsFinite(a) /\ IsFinite(b) THEN Rat(a[1] * b[1], a[2] * b[2]) ELSE NaN
RatSub(a, b) ==
    IF IsFinite(a) /\ IsFinite(b)
    THEN Rat(a[1] * b[2] - b[1] * a[2], a[2] * b[2]) ELSE NaN

\* nan_to_num of one entry (an infinity is outside the cases followed here)
nan_to_num(a) == IF IsFinite(a) THEN a ELSE Zero

\* the rows of cg before the division
CgRows(Mtr) ==
    <<<< Mtr[1][1], -Mtr[1][3],  Mtr[1][2]>>,
      << Mtr[2][3],  Mtr[2][2], -Mtr[2][1]>>,
      <<-Mtr[3][2],  Mtr[3][1],  Mtr[3][3]>>>>

\* variant of CgDivide without the test of the mass
CgDivideAlways(row, M) == [j \in 1..3 |-> Quot(row[j], M)]

\* if mass[k] != 0.: cg[k, :] /= M_k
CgDivide(row, M) ==
    IF M # 0 THEN [j \in 1..3 |-> Quot(row[j], M)]
    ELSE [j \in 1..3 |-> Quot(row[j], 1)]

\* I(S): the six terms and the array II built from them, then nan_to_num
InertiaTensor(Mr, mass, cg) ==
    LET R(a, b) == Quot(Mr[a][b], 1)
        Neg(x)  == RatSub(Zero, x)
        Mx == Quot(mass[1], 1)
        My == Quot(mass[2], 1)
        Mz == Quot(mass[3], 1)
        yx == cg[1][2]
        zx == cg[1][3]
        xy == cg[2][1]
        zy == cg[2][3]
        xz == cg[3][1]
        yz == cg[3][2]
        Sq(x) == RatMul(x, x)
        I11 == RatSub(RatSub(R(1, 1), RatMul(My, Sq(zy))), RatMul(Mz, Sq(yz)))
        I12 == RatSub(Neg(R(1, 2)), RatMul(Mz, RatMul(xz, yz)))
        I13 == RatSub(Neg(R(1, 3)), RatMul(My, RatMul(xy, zy)))
        I22 == RatSub(RatSub(R(2, 2), RatMul(Mz, Sq(xz))), RatMul(Mx, Sq(zx)))
        I23 == RatSub(Neg(R(2, 3)), RatMul(Mx, RatMul(yx, zx)))
        I33 == RatSub(RatSub(R(3, 3), RatMul(Mx, Sq(yx))), RatMul(My, Sq(xy)))
        I21 == I12
        I31 == I13
        I32 == I23
        II  == <<<<I11, I12, I13>>,
                 <<I21, I22, I13>>,
                 <<I31, I32, I33>>>>
    IN  [a \in 1..3 |-> [b \in 1..3 |-> nan_to_num(II[a][b])]]

\* the result record from Mo = triple(D, Mgg) for one outcome e of eigh
make_gpwg(grid_point, Mo, e) ==
    LET gp     == gpwg_grid_point(grid_point)
        Mt     == triple(e.S, Block(Mo, 0, 0))
        Mtr    == triple(e.S, Block(Mo, 0, 3))
        Mr     == triple(e.S, Block(Mo, 3, 3))
        mass   == [k \in 1..3 |-> Mt[k][k]]
        cg     == [k \in 1..3 |-> CgDivide(CgRows(Mtr)[k], mass[k])]
    IN  [made            |-> TRUE,
         reference_point |-> gp,
         MO              |-> Mo,
         S               |-> e.S,
         mass            |-> mass,
         cg              |-> cg,
         IS              |-> InertiaTensor(Mr, mass, cg)]

\* make_gpwg as get_Mgg calls it once Mgg is assembled; model.grid_point is
\* the argument grid_point.  self.positions[grid_point] raises KeyError for
\* a grid point the model does not have
MakeGpwg ==
    /\ pc = "make_gpwg"
    /\ LET gp == gpwg_grid_point(model.grid_point)
       IN  IF gp \notin {-1, 0} /\ gp \notin Range(model.node_id)
           THEN /\ pc' = "raised" /\ err' = "KeyError"
                /\ UNCHANGED gpwgVars
           ELSE LET Mo == triple(DMatrix(model, gp), Mgg)
                IN  \E e \in eigh(Block(Mo, 0, 0)) :
                        /\ grid_point_weight' = make_gpwg(model.grid_point, Mo, e)
                        /\ pc' = "gpwg_made" /\ err' = ""
    /\ UNCHANGED <<model, indexVars, sgVars, sbVars, sVars, ggVars, argVars,
                   solveVars, outVars, massVars, mpVars, mVars, setVars, caseVars>>

(* The cases: one or two grid points in the basic system with lumped masses
   (a translational mass per axis, and for some a rotational inertia about
   x), so that the translational block of Mo is diagonal and eigh is exact. *)

MaxMass == 2

GpwgPositions == {<<0, 0, 0>>, <<1, 0, 1>>, <<0, 2, 0>>, <<1, 1, 0>>}

MassTriples == {<<k, k, k>> : k \in 0..MaxMass} \cup {<<1, 0, 0>>, <<2, 1, 0>>}

\* the translational masses t of the i-th grid point as an element contribution
LumpedMass(i, t) ==
    [type |-> "CONTRIB",
     K    |-> ZeroMatrix(3),
     M    |-> [a \in 1..3 |-> [b \in 1..3 |-> IF a = b THEN t[a] ELSE 0]],
     dofs |-> [a \in 1..3 |-> 6 * (i - 1) + a - 1]]

\* a rotational inertia about x at the i-th grid point
LumpedInertia(i, inertia) ==
    [type |-> "CONTRIB", K |-> ZeroMatrix(1), M |-> <<<<inertia>>>>,
     dofs |-> <<6 * (i - 1) + 3>>]

GpwgModel(g, x, elems, gp) ==
    [node_id |-> g, ps |-> [k \in 1..Len(g) |-> -1], cd |-> [k \in 1..Len(g) |-> 0],
     cp |-> [k \in 1..Len(g) |-> 0], spoint |-> <<>>, xyz |-> x,
     grid_point |-> gp]
    @@ [NoCase EXCEPT !.elems = elems]

GpwgModels ==
    {GpwgModel(g, <<x1, x2>>, <<LumpedMass(1, t1), LumpedMass(2, t2)>>, 0) :
        g \in {<<1, 2>>, <<2, 1>>}, x1 \in GpwgPositions, x2 \in {<<0, 0, 0>>, <<1, 0, 1>>},
        t1 \in MassTriples, t2 \in {<<1, 1, 1>>, <<0, 0, 0>>}}
    \cup {GpwgModel(g, [k \in 1..Len(g) |-> <<1, 0, 1>>],
                    <<LumpedMass(Len(g), <<1, 1, 1>>), LumpedInertia(1, j)>>, gp) :
        g \in {<<2>>, <<1>>, <<1, 2>>}, j \in {0, 1}, gp \in {-1, 0, 1, 2}}

InitGpwg ==
    /\ model \in GpwgModels
    /\ pc = "make_gpwg"
    /\ err = ""
    /\ nidComponentToID = build_nid_component_to_id(model, <<>>, <<>>).map
    /\ ndofs = build_nid_component_to_id(model, <<>>, <<>>).i
    /\ mp_index = 1
    /\ iUsg = <<>> /\ Usg = <<>>
    /\ iUsb = <<>> /\ Usb = <<>>
    /\ iUs = <<>> /\ Us = <<>>
    /\ Kgg = <<>> /\ Fg = <<>>
    /\ Mgg = assemble_global_mass_matrix(model, 1, ZeroMatrix(6 * Len(model.node_id)))
    /\ iUmp = <<>> /\ jUmp = <<>> /\ Ump = <<>>
    /\ iUm = <<>> /\ jUm = <<>> /\ Um = <<>>
    /\ base = EmptyBase /\ derived = NoDerived
    /\ Kaa = <<>> /\ Fa = <<>> /\ dofs2 = <<>>
    /\ failed = <<>> /\ nsolve = 0 /\ Ua = <<>>
    /\ U = <<>> /\ nwrites = <<>>
    /\ grid_point_weight = NoWeight /\ case_result_flags = NoFlags

SpecGpwg == InitGpwg /\ [][MakeGpwg]_vars

GpwgMade == pc = "gpwg_made"

\* C26: the reference point id stored in the result record equals the
\* grid_point argument the caller passed, and the reduction is about that
\* point (the origin for 0 or -1, the position of grid point g for g > 0)
C26_ReferencePointIsTheArgument ==
    GpwgMade =>
        /\ grid_point_weight.reference_point = model.grid_point
        /\ grid_point_weight.MO = triple(DMatrix(model, model.grid_point), Mgg)

\* Mtr = triple(S, Mo[:3, 3:]) read back from the stored record
StoredMtr == triple(grid_point_weight.S, Block(grid_point_weight.MO, 0, 3))

\* C27: row k of the center-of-gravity matrix is the coupling-block row
\* divided by the principal mass of axis k when that mass is non-zero; for a
\* principal mass of exactly zero nothing is divided by zero and row k is zero
C27_CgRowsDividedByNonZeroMass ==
    GpwgMade =>
        \A k \in 1..3 :
            LET M   == grid_point_weight.mass[k]
                row == CgRows(StoredMtr)[k]
            IN  \A j \in 1..3 :
                    /\ IsFinite(grid_point_weight.cg[k][j])
                    /\ M # 0 => grid_point_weight.cg[k][j] = Rat(row[j], M)
                    /\ M = 0 => grid_point_weight.cg[k][j] = Zero

\* a principal mass of zero beside a non-zero one whose row has been divided
C27_Witness ==
    /\ GpwgMade
    /\ grid_point_weight.mass = <<0, 0, 1>>
    /\ grid_point_weight.cg[1] = <<Zero, Zero, Zero>>
    /\ \E j \in 1..3 : grid_point_weight.cg[3][j] \notin {Zero, <<1, 1>>, <<-1, 1>>}

\* C30: the stored inertia tensor I(S) is symmetric whenever the rotational
\* block Mr it is computed from is symmetric
C30_InertiaTensorIsSymmetric ==
    (GpwgMade /\ IsSymmetric(triple(grid_point_weight.S, Block(grid_point_weight.MO, 3, 3))))
        => IsSymmetric(grid_point_weight.IS)

====
